---- MODULE Spec2Model ----
(***************************************************************************)
(* TruthGuard verification core: the VerificationSwarm scheduler of        *)
(* packages/truthguard-plugin/src/verification/agent-swarm.ts.             *)
(*                                                                         *)
(* The swarm runs on one JavaScript event loop.  A step of the model is    *)
(* one run-to-completion segment of that loop: either a macrotask (a call  *)
(* of a public method, the return of an external analyzer, a timer of      *)
(* waitForTasks) or one microtask (the continuation of an `await`).        *)
(* Continuations wait in the FIFO microtask queue mq; a macrotask starts   *)
(* only when mq is empty.                                                  *)
(*                                                                         *)
(* The same file holds the two leaf components a caller composes with the  *)
(* swarm: the ConsensusEngine (pure functions over votes and the validator *)
(* registry) and the EvidenceCollector with its hash-linked evidenceChain. *)
(* Numbers that are fractions in the code are kept exact, as integers over *)
(* a named scale or as num/den pairs.  fuseDetectionResults of             *)
(* detection/fusion.ts, which the swarm's fusion tasks call, is modelled   *)
(* in full as a pure function of its results and configuration.            *)
(***************************************************************************)
EXTENDS Integers, Sequences, FiniteSets, TLC

VARIABLES
    agents,     \* this.agents: the agent pool, in Map insertion order
    tasks,      \* this.tasks: every task ever created, in creation order
    taskQueue,  \* this.taskQueue: ids of the queued tasks
    mq,         \* the event loop's microtask queue (pending continuations)
    calls,      \* the verifyContent activations, in invocation order
    evidenceChain, \* EvidenceCollector.evidenceChain: the ledger's blocks
    now,        \* the clock Date.now() reads, in ms
    tamper,     \* writes to stored blocks made from outside the collector
    evidence,   \* the Evidence records the caller holds
    dkgCalls,   \* the storeOnDKG activations and the callers awaiting them
    validators, \* the validator registry passed to the ConsensusEngine
    ret         \* the last call of a leaf component and what it returned

swarmVars == <<agents, tasks, taskQueue, mq, calls>>

collectorVars == <<evidenceChain, now, tamper, evidence, dkgCalls>>

consensusVars == <<validators>>

vars == <<agents, tasks, taskQueue, mq, calls,
          evidenceChain, now, tamper, evidence, dkgCalls, validators, ret>>

(***************************************************************************)
(* Bounds of the model.                                                    *)
(***************************************************************************)
\* verifyContent calls made concurrently on the swarm (Spec)
MaxCalls == 3
\* verifyContent calls made one after the other (SpecTasks)
MaxSeq == 1
\* createTask calls made directly by a caller of the public method (SpecTasks)
MaxDirect == 1
\* createTask calls of the caller that fills the queue (SpecQueue)
MaxQueue == 4
\* polls of one waitForTasks before its ceiling (the code's ceiling is
\* maxWait / checkInterval = 600 polls)
MaxPolls == 2

ContentIdOrder == <<"c1", "c2">>

\* contentType strings, as sequences of characters: the values of
\* ContentTypeEnum
Str_image == <<"i", "m", "a", "g", "e">>
Str_video == <<"v", "i", "d", "e", "o">>
Str_audio == <<"a", "u", "d", "i", "o">>
Str_text == <<"t", "e", "x", "t">>
Str_mixed == <<"m", "i", "x", "e", "d">>

\* a contentType that names two media
Str_textvideo == Str_text \o <<"/">> \o Str_video

ContentTypes ==
    {Str_image, Str_video, Str_audio, Str_text, Str_mixed, Str_textvideo}

\* the content types of the concurrent calls of Spec
CallTypes == {Str_image, Str_mixed}

\* the direct createTask calls of SpecTasks: every agent type, every priority
DirectTasks ==
    {[type |-> "visual_specialist", priority |-> "low"],
     [type |-> "audio_specialist", priority |-> "medium"],
     [type |-> "text_specialist", priority |-> "high"],
     [type |-> "metadata_analyst", priority |-> "critical"],
     [type |-> "fusion_coordinator", priority |-> "high"],
     [type |-> "consensus_builder", priority |-> "medium"],
     [type |-> "evidence_collector", priority |-> "low"]}

\* String.prototype.includes
Includes(s, sub) ==
    \E i \in 1..(Len(s) - Len(sub) + 1) : SubSeq(s, i, i + Len(sub) - 1) = sub

(***************************************************************************)
(* Types.                                                                  *)
(***************************************************************************)
SwarmAgentType ==
    {"visual_specialist", "audio_specialist", "text_specialist",
     "metadata_analyst", "fusion_coordinator", "consensus_builder",
     "evidence_collector"}

Priority == {"low", "medium", "high", "critical"}

\* the absent value of an optional field
Undefined == [undefined |-> TRUE]

\* agentTypes of initializeAgents, in order
agentTypes ==
    << [type |-> "visual_specialist", count |-> 2],
       [type |-> "audio_specialist", count |-> 2],
       [type |-> "text_specialist", count |-> 2],
       [type |-> "metadata_analyst", count |-> 1],
       [type |-> "fusion_coordinator", count |-> 1],
       [type |-> "consensus_builder", count |-> 1],
       [type |-> "evidence_collector", count |-> 1] >>

RECURSIVE initializeAgents(_)
initializeAgents(i) ==
    IF i > Len(agentTypes) THEN <<>>
    ELSE [k \in 1..agentTypes[i].count |->
             [id |-> <<agentTypes[i].type, k - 1>>,
              type |-> agentTypes[i].type,
              status |-> "idle",
              tasksCompleted |-> 0]] \o initializeAgents(i + 1)

\* waitForTasks: poll interval and ceiling, in ms
checkInterval == 100
maxWait == MaxPolls * checkInterval

(***************************************************************************)
(* The scheduler state a segment works on: s = [agents, tasks, taskQueue,  *)
(* mq].  The operators below are the synchronous parts of the methods.     *)
(***************************************************************************)
getPriorityValue(priority) ==
    CASE priority = "critical" -> 4
      [] priority = "high" -> 3
      [] priority = "medium" -> 2
      [] priority = "low" -> 1

\* the comparator of createTask's sort, on task ids
compare(ts, a, b) ==
    getPriorityValue(ts[b].priority) - getPriorityValue(ts[a].priority)

\* the insertion step of an unstable sort: the new element goes ahead of the
\* elements that compare equal to it
RECURSIVE insertSorted_Unstable(_, _, _)
insertSorted_Unstable(ts, q, x) ==
    IF q = <<>> THEN <<x>>
    ELSE IF compare(ts, x, Head(q)) <= 0 THEN <<x>> \o q
    ELSE <<Head(q)>> \o insertSorted_Unstable(ts, Tail(q), x)

\* Array.prototype.sort with that comparator (stable, ES2019): insertion sort
RECURSIVE insertSorted(_, _, _)
insertSorted(ts, q, x) ==
    IF q = <<>> THEN <<x>>
    ELSE IF compare(ts, x, Head(q)) < 0 THEN <<x>> \o q
    ELSE <<Head(q)>> \o insertSorted(ts, Tail(q), x)

RECURSIVE sort(_, _)
sort(ts, q) ==
    IF q = <<>> THEN <<>>
    ELSE insertSorted(ts, sort(ts, SubSeq(q, 1, Len(q) - 1)), q[Len(q)])

\* createTask; by is the verifyContent activation that called it (0: none)
createTask(s, type, contentId, priority, by) ==
    LET task == [type |-> type,
                 contentId |-> contentId,
                 priority |-> priority,
                 status |-> "pending",
                 assignedTo |-> 0,
                 result |-> Undefined,
                 by |-> by,
                 awaitedBy |-> 0,
                 seen |-> {},
                 log |-> <<"pending">>]
        ts == Append(s.tasks, task)
    IN  [s EXCEPT !.tasks = ts,
                  !.taskQueue = sort(ts, Append(s.taskQueue, Len(ts)))]

(***************************************************************************)
(* Continuations in the microtask queue.  k names the suspended function:  *)
(* it resumes after its `await` on task t (executeTask, buildConsensus,    *)
(* assignTask), for the activation c (processQueue, verifyContent; c = 0   *)
(* is a processQueue nobody awaits), with the awaited outcome ok / res.    *)
(***************************************************************************)
Cont(k, t, c, ok, res) == [k |-> k, t |-> t, c |-> c, ok |-> ok, res |-> res]

Push(s, item) == [s EXCEPT !.mq = Append(@, item)]

SetStatus(s, t, status) ==
    [s EXCEPT !.tasks[t].status = status,
              !.tasks[t].log = Append(@, status)]

\* a DetectionResult: its modality and the task that owns the object
DetectionResult(modality, t) == [modality |-> modality, task |-> t]

\* fuseDetectionResults, as far as the scheduler depends on it: the empty
\* input error, the method and the fused list
fuseDetectionResults(results, method) ==
    IF Len(results) = 0
    THEN [ok |-> FALSE, res |-> Undefined]
    ELSE [ok |-> TRUE,
          res |-> [fusionMethod |-> method, modalityResults |-> results]]

\* Array.prototype.filter over the values of this.tasks, as task ids
RECURSIVE filterTasks(_, _, _)
filterTasks(ts, i, contentId) ==
    IF i > Len(ts) THEN <<>>
    ELSE (IF /\ ts[i].contentId = contentId
             /\ ts[i].status = "completed"
             /\ ts[i].result # Undefined
          THEN <<i>> ELSE <<>>) \o filterTasks(ts, i + 1, contentId)

isDetectionResult(r) == r # Undefined /\ "modality" \in DOMAIN r

RECURSIVE filterResults(_, _)
filterResults(ts, ids) ==
    IF ids = <<>> THEN <<>>
    ELSE (IF isDetectionResult(ts[Head(ids)].result)
          THEN <<ts[Head(ids)].result>> ELSE <<>>)
         \o filterResults(ts, Tail(ids))

\* coordinateFusion as it would be if a failed task of the content aborted it
coordinateFusion_AllOrNothing(s, contentId) ==
    LET detectionTasks == filterTasks(s.tasks, 1, contentId)
        results == filterResults(s.tasks, detectionTasks)
        aborted == \E i \in 1..Len(s.tasks) :
                      /\ s.tasks[i].contentId = contentId
                      /\ s.tasks[i].status = "failed"
    IN  IF Len(results) = 0 \/ aborted
        THEN [ok |-> FALSE, res |-> Undefined]
        ELSE fuseDetectionResults(results, "deep_fusion")

\* coordinateFusion: it has no await, so it runs whole in the caller's segment
coordinateFusion(s, contentId) ==
    LET detectionTasks == filterTasks(s.tasks, 1, contentId)
        results == filterResults(s.tasks, detectionTasks)
    IN  IF Len(results) = 0
        THEN [ok |-> FALSE, res |-> Undefined]
        ELSE fuseDetectionResults(results, "deep_fusion")

\* the ids of the tasks that are completed now (recorded when a fusion runs)
CompletedNow(s) == {i \in 1..Len(s.tasks) : s.tasks[i].status = "completed"}

\* executeTask up to its await: the dispatch on agent.type
executeTask(s, t, a) ==
    LET s1 == SetStatus(s, t, "processing")
        type == s1.agents[a].type
        contentId == s1.tasks[t].contentId
        fused == coordinateFusion(s1, contentId)
        s2 == [s1 EXCEPT !.tasks[t].seen = CompletedNow(s1)]
    IN  CASE type \in {"visual_specialist", "audio_specialist", "text_specialist"}
               -> s1   \* the analyzer's python process runs; see analyzerReturns
          [] type = "metadata_analyst"
               -> Push(s1, Cont("executeTask", t, 0, TRUE,
                                DetectionResult("metadata", t)))
          [] type = "fusion_coordinator"
               -> Push(s2, Cont("executeTask", t, 0, fused.ok, fused.res))
          [] type = "consensus_builder"
               -> Push(s2, Cont("buildConsensus", t, 0, fused.ok, fused.res))
          [] type = "evidence_collector"
               -> Push(s1, Cont("executeTask", t, 0, TRUE,
                                DetectionResult("fusion", t)))

\* find as it would be if it did not look at the agent's type
findAgent_AnyType(s, type) ==
    LET idle == {a \in 1..Len(s.agents) : s.agents[a].status = "idle"}
    IN  IF idle = {} THEN 0 ELSE CHOOSE a \in idle : \A b \in idle : a <= b

\* find as it would be if it did not look at the agent's status
findAgent_AnyStatus(s, type) ==
    LET ofType == {a \in 1..Len(s.agents) : s.agents[a].type = type}
    IN  IF ofType = {} THEN 0 ELSE CHOOSE a \in ofType : \A b \in ofType : a <= b

\* Array.prototype.find over the agents: the first idle agent of the type, or 0
findAgent(s, type) ==
    LET idle == {a \in 1..Len(s.agents) :
                    s.agents[a].type = type /\ s.agents[a].status = "idle"}
    IN  IF idle = {} THEN 0 ELSE CHOOSE a \in idle : \A b \in idle : a <= b

\* assignTask up to its first await, called by the processQueue of activation c;
\* without an agent it returns at once and the caller's await resumes next tick
\* (the continuation names the task t the pass could not assign)
assignTask(s, t, c) ==
    LET availableAgent == findAgent(s, s.tasks[t].type)
        s1 == SetStatus(s, t, "assigned")
        s2 == [s1 EXCEPT !.tasks[t].assignedTo = availableAgent,
                         !.tasks[t].awaitedBy = c,
                         !.agents[availableAgent].status = "busy"]
    IN  IF availableAgent = 0
        THEN Push(s, Cont("processQueue", t, c, TRUE, Undefined))
        ELSE executeTask(s2, t, availableAgent)

\* processQueue from its loop head up to its next await, or to its end, where
\* the verifyContent activation c that awaits it (if any) is resumed
RECURSIVE processQueue(_, _)
processQueue(s, c) ==
    IF Len(s.taskQueue) > 0
    THEN LET task == Head(s.taskQueue)
             s1 == [s EXCEPT !.taskQueue = Tail(@)]
         IN  IF s1.tasks[task].status = "pending"
             THEN assignTask(s1, task, c)
             ELSE processQueue(s1, c)
    ELSE IF c # 0
         THEN Push(s, Cont("verifyContent", 0, c, TRUE, Undefined))
         ELSE s

\* executeTask as it would be if its catch block did not mark the task failed
executeTaskResume_Swallow(s, t, ok, res) ==
    LET a == s.tasks[t].assignedTo
        done == [SetStatus(s, t, "completed") EXCEPT
                    !.tasks[t].result = res,
                    !.agents[a].tasksCompleted = @ + 1]
        s2 == [done EXCEPT !.agents[a].status = "idle"]
    IN  Push(processQueue(s2, 0), Cont("assignTask", t, 0, TRUE, Undefined))

\* executeTask as it would be if the scheduler retried a failed task: the
\* catch block puts the task back in the queue as pending
executeTaskResume_Retry(s, t, ok, res) ==
    LET a == s.tasks[t].assignedTo
        done == [SetStatus(s, t, "completed") EXCEPT
                    !.tasks[t].result = res,
                    !.agents[a].tasksCompleted = @ + 1]
        failed == [SetStatus(SetStatus(s, t, "failed"), t, "pending") EXCEPT
                    !.taskQueue = Append(@, t)]
        s1 == IF ok THEN done ELSE failed
        s2 == [s1 EXCEPT !.agents[a].status = "idle"]
    IN  Push(processQueue(s2, 0), Cont("assignTask", t, 0, TRUE, Undefined))

\* executeTask as it would be if it released the agent and started the
\* assignment pass at the end of its try block instead of in a finally block
executeTaskResume_NoFinally(s, t, ok, res) ==
    LET a == s.tasks[t].assignedTo
        done == [SetStatus(s, t, "completed") EXCEPT
                    !.tasks[t].result = res,
                    !.agents[a].tasksCompleted = @ + 1,
                    !.agents[a].status = "idle"]
        failed == SetStatus(s, t, "failed")
    IN  Push(IF ok THEN processQueue(done, 0) ELSE failed,
             Cont("assignTask", t, 0, TRUE, Undefined))

\* executeTask as it would be if it counted the task in its finally block
executeTaskResume_CountAll(s, t, ok, res) ==
    LET a == s.tasks[t].assignedTo
        done == [SetStatus(s, t, "completed") EXCEPT !.tasks[t].result = res]
        failed == SetStatus(s, t, "failed")
        s1 == IF ok THEN done ELSE failed
        s2 == [s1 EXCEPT !.agents[a].status = "idle",
                         !.agents[a].tasksCompleted = @ + 1]
    IN  Push(processQueue(s2, 0), Cont("assignTask", t, 0, TRUE, Undefined))

\* executeTask after its await: the analyzer returned res (ok) or threw
executeTaskResume(s, t, ok, res) ==
    LET a == s.tasks[t].assignedTo
        done == [SetStatus(s, t, "completed") EXCEPT
                    !.tasks[t].result = res,
                    !.agents[a].tasksCompleted = @ + 1]
        failed == SetStatus(s, t, "failed")
        s1 == IF ok THEN done ELSE failed
        s2 == [s1 EXCEPT !.agents[a].status = "idle"]
    IN  Push(processQueue(s2, 0), Cont("assignTask", t, 0, TRUE, Undefined))

\* the modality of the result of the external analyzer an agent type invokes
analyzerModality(type) ==
    CASE type = "visual_specialist" -> "visual"
      [] type = "audio_specialist" -> "audio"
      [] type = "text_specialist" -> "text"

\* waitForTasks as it would be without the wait: it returns at once
waitForTasks_NoWait(s, c, taskIds, waited) ==
    [s |-> Push(s, Cont("verifyContent", 0, c, TRUE, Undefined)), timer |-> FALSE]

\* waitForTasks as it would be if it returned at the ceiling instead of throwing
waitForTasks_NoThrow(s, c, taskIds, waited) ==
    LET allComplete ==
            \A i \in 1..Len(taskIds) :
                s.tasks[taskIds[i]].status \in {"completed", "failed"}
    IN  IF waited < maxWait /\ ~allComplete
        THEN [s |-> s, timer |-> TRUE]
        ELSE [s |-> Push(s, Cont("verifyContent", 0, c, TRUE, Undefined)),
              timer |-> FALSE]

\* waitForTasks for activation c from its loop head, after `waited` ms: it
\* returns or throws (verifyContent resumes next tick) or arms its timer
waitForTasks(s, c, taskIds, waited) ==
    LET allComplete ==
            \A i \in 1..Len(taskIds) :
                s.tasks[taskIds[i]].status \in {"completed", "failed"}
    IN  IF waited < maxWait
        THEN IF allComplete
             THEN [s |-> Push(s, Cont("verifyContent", 0, c, TRUE, Undefined)),
                   timer |-> FALSE]
             ELSE [s |-> s, timer |-> TRUE]
        ELSE [s |-> Push(s, Cont("verifyContent", 0, c, FALSE, Undefined)),
              timer |-> FALSE]

\* verifyContent as it would be if "video" did not imply an audio task
verifyContentStart_VideoNoAudio(s, c, contentId, contentType) ==
    LET s1 == IF Includes(contentType, Str_image) \/ Includes(contentType, Str_video)
              THEN createTask(s, "visual_specialist", contentId, "high", c)
              ELSE s
        s2 == IF Includes(contentType, Str_audio)
              THEN createTask(s1, "audio_specialist", contentId, "high", c)
              ELSE s1
        s3 == IF Includes(contentType, Str_text)
              THEN createTask(s2, "text_specialist", contentId, "high", c)
              ELSE s2
        s4 == createTask(s3, "metadata_analyst", contentId, "medium", c)
    IN  [s |-> processQueue(s4, c),
         tasks |-> [i \in 1..(Len(s4.tasks) - Len(s.tasks)) |-> Len(s.tasks) + i]]

\* verifyContent up to its first await: lines 285-304
verifyContentStart(s, c, contentId, contentType) ==
    LET s1 == IF Includes(contentType, Str_image) \/ Includes(contentType, Str_video)
              THEN createTask(s, "visual_specialist", contentId, "high", c)
              ELSE s
        s2 == IF Includes(contentType, Str_audio) \/ Includes(contentType, Str_video)
              THEN createTask(s1, "audio_specialist", contentId, "high", c)
              ELSE s1
        s3 == IF Includes(contentType, Str_text)
              THEN createTask(s2, "text_specialist", contentId, "high", c)
              ELSE s2
        s4 == createTask(s3, "metadata_analyst", contentId, "medium", c)
    IN  [s |-> processQueue(s4, c),
         tasks |-> [i \in 1..(Len(s4.tasks) - Len(s.tasks)) |-> Len(s.tasks) + i]]

(***************************************************************************)
(* The state machine.                                                      *)
(***************************************************************************)
S == [agents |-> agents, tasks |-> tasks, taskQueue |-> taskQueue, mq |-> mq]

Commit(s) ==
    /\ agents' = s.agents
    /\ tasks' = s.tasks
    /\ taskQueue' = s.taskQueue
    /\ mq' = s.mq
    /\ UNCHANGED <<collectorVars, consensusVars, ret>>

\* the event loop takes the next microtask
Pop == [S EXCEPT !.mq = Tail(@)]

\* new VerificationSwarm()
InitSwarm ==
    /\ agents = initializeAgents(1)
    /\ tasks = <<>>
    /\ taskQueue = <<>>
    /\ mq = <<>>
    /\ calls = <<>>

\* new EvidenceCollector(), at time 0, the caller holding no Evidence yet
InitCollector ==
    /\ evidenceChain = <<>>
    /\ now = 0
    /\ tamper = {}
    /\ evidence = <<>>
    /\ dkgCalls = <<>>

\* nothing has been called on a leaf component
NoCall == [op |-> "none"]

Init ==
    /\ InitSwarm
    /\ InitCollector
    /\ validators = <<>>
    /\ ret = NoCall

\* a caller invokes verifyContent(contentId, contentType)
VerifyContent(contentId, contentType) ==
    /\ mq = <<>>
    /\ LET c == Len(calls) + 1
           r == verifyContentStart(S, c, contentId, contentType)
       IN  /\ Commit(r.s)
           /\ calls' = Append(calls,
                  [contentId |-> contentId,
                   contentType |-> contentType,
                   pc |-> "processQueue1",
                   tasks |-> r.tasks,
                   fusionTask |-> 0,
                   waited |-> 0,
                   timer |-> FALSE,
                   outcome |-> "pending",
                   at |-> "",
                   result |-> Undefined])

\* a caller invokes the public createTask(type, contentId, priority)
CreateTask(type, contentId, priority) ==
    /\ mq = <<>>
    /\ Commit(createTask(S, type, contentId, priority, 0))
    /\ UNCHANGED calls

\* the external analyzer of a processing task returns (ok) or throws
AnalyzerReturns(t, ok) ==
    /\ mq = <<>>
    /\ t \in 1..Len(tasks)
    /\ tasks[t].status = "processing"
    /\ tasks[t].type \in {"visual_specialist", "audio_specialist", "text_specialist"}
    /\ Commit(executeTaskResume(S, t, ok,
                  DetectionResult(analyzerModality(tasks[t].type), t)))
    /\ UNCHANGED calls

\* the 100 ms timer of the waitForTasks of activation c fires
TimerFires(c) ==
    /\ mq = <<>>
    /\ c \in 1..Len(calls)
    /\ calls[c].timer
    /\ LET waited == calls[c].waited + checkInterval
           taskIds == IF calls[c].pc = "waitForTasks1"
                      THEN calls[c].tasks ELSE <<calls[c].fusionTask>>
           r == waitForTasks(S, c, taskIds, waited)
       IN  /\ Commit(r.s)
           /\ calls' = [calls EXCEPT ![c].waited = waited, ![c].timer = r.timer]

\* microtask: executeTask resumes after `await` of an internal handler
ExecuteTaskResumes ==
    /\ mq # <<>>
    /\ Head(mq).k = "executeTask"
    /\ Commit(executeTaskResume(Pop, Head(mq).t, Head(mq).ok, Head(mq).res))
    /\ UNCHANGED calls

\* microtask: buildConsensus resumes after `await this.coordinateFusion`
BuildConsensusResumes ==
    /\ mq # <<>>
    /\ Head(mq).k = "buildConsensus"
    /\ Commit(Push(Pop, Cont("executeTask", Head(mq).t, 0, Head(mq).ok, Head(mq).res)))
    /\ UNCHANGED calls

\* microtask: assignTask resumes after `await this.executeTask` and returns
AssignTaskResumes ==
    /\ mq # <<>>
    /\ Head(mq).k = "assignTask"
    /\ Commit(Push(Pop, Cont("processQueue", 0, tasks[Head(mq).t].awaitedBy,
                             TRUE, Undefined)))
    /\ UNCHANGED calls

\* microtask: a processQueue resumes after `await this.assignTask`
ProcessQueueResumes ==
    /\ mq # <<>>
    /\ Head(mq).k = "processQueue"
    /\ Commit(processQueue(Pop, Head(mq).c))
    /\ UNCHANGED calls

\* microtask: verifyContent resumes after one of its four awaits
VerifyContentResumes ==
    /\ mq # <<>>
    /\ Head(mq).k = "verifyContent"
    /\ LET c == Head(mq).c
           ok == Head(mq).ok
           pc == calls[c].pc
           w1 == waitForTasks(Pop, c, calls[c].tasks, 0)
           s1 == createTask(Pop, "fusion_coordinator", calls[c].contentId,
                            "critical", c)
           fusionTask == Len(s1.tasks)
           w2 == waitForTasks(Pop, c, <<calls[c].fusionTask>>, 0)
           result == tasks[calls[c].fusionTask].result
           timeout == [calls EXCEPT ![c].pc = "done",
                                    ![c].at = pc,
                                    ![c].waited = 0,
                                    ![c].outcome = "Task timeout exceeded"]
       IN  CASE pc = "processQueue1" ->
                  /\ Commit(w1.s)
                  /\ calls' = [calls EXCEPT ![c].pc = "waitForTasks1",
                                            ![c].waited = 0,
                                            ![c].timer = w1.timer]
             [] pc = "waitForTasks1" /\ ok ->
                  /\ Commit(processQueue(s1, c))
                  /\ calls' = [calls EXCEPT ![c].pc = "processQueue2",
                                            ![c].waited = 0,
                                            ![c].fusionTask = fusionTask]
             [] pc = "processQueue2" ->
                  /\ Commit(w2.s)
                  /\ calls' = [calls EXCEPT ![c].pc = "waitForTasks2",
                                            ![c].waited = 0,
                                            ![c].timer = w2.timer]
             [] pc = "waitForTasks2" /\ ok ->
                  /\ Commit(Pop)
                  /\ calls' = IF result = Undefined
                              THEN [calls EXCEPT
                                      ![c].pc = "done",
                                      ![c].at = pc,
                                      ![c].waited = 0,
                                      ![c].outcome = "Fusion task did not produce result"]
                              ELSE [calls EXCEPT
                                      ![c].pc = "done",
                                      ![c].at = pc,
                                      ![c].waited = 0,
                                      ![c].outcome = "returned",
                                      ![c].result = result]
             [] pc \in {"waitForTasks1", "waitForTasks2"} /\ ~ok ->
                  /\ Commit(Pop)
                  /\ calls' = timeout

(***************************************************************************)
(* The inputs the callers supply, and the specifications.                  *)
(***************************************************************************)
\* the direct createTask calls made so far
Direct == Cardinality({i \in 1..Len(tasks) : tasks[i].by = 0})

\* content ids are opaque: a caller passes one already in use or the next
\* fresh one
UsedIds == {tasks[i].contentId : i \in 1..Len(tasks)}

NextIds ==
    UsedIds \cup {ContentIdOrder[i] : i \in {j \in 1..Len(ContentIdOrder) :
                    /\ ContentIdOrder[j] \notin UsedIds
                    /\ \A k \in 1..(j - 1) : ContentIdOrder[k] \in UsedIds}}

\* Spec: concurrent verifyContent calls on one swarm
Next ==
    \/ /\ Len(calls) < MaxCalls
       /\ \E contentId \in NextIds, contentType \in CallTypes :
             VerifyContent(contentId, contentType)
    \/ \E t \in 1..Len(tasks), ok \in BOOLEAN : AnalyzerReturns(t, ok)
    \/ \E c \in 1..Len(calls) : TimerFires(c)
    \/ ExecuteTaskResumes
    \/ AssignTaskResumes
    \/ ProcessQueueResumes
    \/ VerifyContentResumes

Spec == Init /\ [][Next]_vars

\* SpecTasks: a caller that creates tasks of its own and awaits each
\* verifyContent before the next, with every content type
NextTasks ==
    \/ /\ Len(calls) < MaxSeq
       /\ \A c \in 1..Len(calls) : calls[c].pc = "done"
       /\ \E contentId \in NextIds, contentType \in ContentTypes :
             VerifyContent(contentId, contentType)
    \/ /\ Direct < MaxDirect
       /\ \E d \in DirectTasks, contentId \in NextIds :
             CreateTask(d.type, contentId, d.priority)
    \/ \E t \in 1..Len(tasks), ok \in BOOLEAN : AnalyzerReturns(t, ok)
    \/ \E c \in 1..Len(calls) : TimerFires(c)
    \/ ExecuteTaskResumes
    \/ BuildConsensusResumes
    \/ AssignTaskResumes
    \/ ProcessQueueResumes
    \/ VerifyContentResumes

SpecTasks == Init /\ [][NextTasks]_vars

\* SpecQueue: a caller that enqueues metadata tasks of any priority before,
\* during and after one verifyContent call, whose processQueue passes dequeue
NextQueue ==
    \/ /\ Len(calls) < 1
       /\ VerifyContent(ContentIdOrder[1], Str_image)
    \/ /\ Direct < MaxQueue
       /\ \E priority \in Priority :
             CreateTask("metadata_analyst", ContentIdOrder[1], priority)
    \/ \E t \in 1..Len(tasks), ok \in BOOLEAN : AnalyzerReturns(t, ok)
    \/ \E c \in 1..Len(calls) : TimerFires(c)
    \/ ExecuteTaskResumes
    \/ AssignTaskResumes
    \/ ProcessQueueResumes
    \/ VerifyContentResumes

SpecQueue == Init /\ [][NextQueue]_vars

\* verifyContent calls of the burst of SpecBurst
MaxBurst == 4

\* SpecBurst: a burst of concurrent verifyContent calls for images of one
\* content, more than the pool has visual_specialist agents
NextBurst ==
    \/ /\ Len(calls) < MaxBurst
       /\ VerifyContent(ContentIdOrder[1], Str_image)
    \/ \E t \in 1..Len(tasks), ok \in BOOLEAN : AnalyzerReturns(t, ok)
    \/ \E c \in 1..Len(calls) : TimerFires(c)
    \/ ExecuteTaskResumes
    \/ AssignTaskResumes
    \/ ProcessQueueResumes
    \/ VerifyContentResumes

SpecBurst == Init /\ [][NextBurst]_vars

\* getStatus
getStatus(s) ==
    [agents |-> Len(s.agents),
     activeTasks |->
        Cardinality({i \in 1..Len(s.tasks) :
                        s.tasks[i].status \in {"processing", "assigned"}}),
     completedTasks |->
        Cardinality({i \in 1..Len(s.tasks) : s.tasks[i].status = "completed"}),
     queuedTasks |-> Len(s.taskQueue)]

\* a caller invokes the public getStatus()
GetStatus ==
    /\ mq = <<>>
    /\ ret' = [op |-> "getStatus", value |-> getStatus(S)]
    /\ UNCHANGED <<swarmVars, collectorVars, consensusVars>>

\* SpecStatus: concurrent verifyContent calls on one swarm, and a caller
\* that reads the status once, at any moment
NextStatus ==
    /\ ret = NoCall
    /\ \/ Next
       \/ GetStatus

SpecStatus == Init /\ [][NextStatus]_vars

(***************************************************************************)
(* EvidenceCollector: the hash-linked ledger evidenceChain.                *)
(***************************************************************************)
\* blocks one ledger may hold
MaxBlocks == 3
\* the latest time the clock reaches, in ms
MaxClock == 3
\* Evidence records the caller collects
MaxEvidence == 1

EvidenceIdOrder == <<"e1", "e2">>

EvidenceIds == {EvidenceIdOrder[i] : i \in 1..Len(EvidenceIdOrder)}

DetectionIdOrder == <<"d1", "d2">>

DetectionIds == {DetectionIdOrder[i] : i \in 1..Len(DetectionIdOrder)}

\* crypto.createHash("sha256").update(data).digest("hex"): a collision-free
\* digest, kept as the data it was computed from
generateContentHash(data) == [sha256 |-> data]

\* a well-formed digest that is the hash of no block
ForeignHash == generateContentHash(<<>>)

\* JSON.stringify of an object literal: its keys in order with their values;
\* a key whose value is undefined is left out
Field(key, value) == << <<key, value>> >>

OptionalField(key, value) ==
    IF value = Undefined THEN <<>> ELSE << <<key, value>> >>

\* the blockData of addToChain and verifyChain
blockData(evidenceId, detectionId, previousHash, blockNumber, timestamp) ==
    Field("evidenceId", evidenceId)
    \o Field("detectionId", detectionId)
    \o OptionalField("previousHash", previousHash)
    \o Field("blockNumber", blockNumber)
    \o Field("timestamp", timestamp)

\* addToChain as it would be if it numbered blocks from 1
addToChain_FromOne(chain, evidenceId, detectionId, t1, t2) ==
    LET previousHash == IF Len(chain) > 0 THEN chain[Len(chain)].chainHash
                        ELSE Undefined
        chainHash == generateContentHash(
            blockData(evidenceId, detectionId, previousHash, Len(chain) + 1, t1))
    IN  [evidenceId |-> evidenceId,
         detectionId |-> detectionId,
         chainHash |-> chainHash,
         previousHash |-> previousHash,
         blockNumber |-> Len(chain) + 1,
         timestamp |-> t2]

\* addToChain: the block it builds; t1 and t2 are what its two Date.now()
\* calls return, the first for the hashed blockData, the second for the block
addToChain(chain, evidenceId, detectionId, t1, t2) ==
    LET previousHash == IF Len(chain) > 0 THEN chain[Len(chain)].chainHash
                        ELSE Undefined
        chainHash == generateContentHash(
            blockData(evidenceId, detectionId, previousHash, Len(chain), t1))
    IN  [evidenceId |-> evidenceId,
         detectionId |-> detectionId,
         chainHash |-> chainHash,
         previousHash |-> previousHash,
         blockNumber |-> Len(chain),
         timestamp |-> t2]

\* the hash verifyChain recomputes from a block's stored fields
calculatedHash(b) ==
    generateContentHash(blockData(b.evidenceId, b.detectionId, b.previousHash,
                                  b.blockNumber, b.timestamp))

\* verifyChain as it would be if it checked every block's hash, the first
\* block's too
RECURSIVE verifyChain_AllBlocks(_, _)
verifyChain_AllBlocks(chain, i) ==
    IF i >= Len(chain) + 1 THEN TRUE
    ELSE IF calculatedHash(chain[i]) # chain[i].chainHash THEN FALSE
    ELSE verifyChain_AllBlocks(chain, i + 1)

\* verifyChain from loop index i (the code's i, 0-based; chain[i + 1] is its
\* evidenceChain[i])
RECURSIVE verifyChain(_, _)
verifyChain(chain, i) ==
    IF i >= Len(chain) THEN TRUE
    ELSE IF chain[i + 1].previousHash # chain[i].chainHash THEN FALSE
    ELSE IF calculatedHash(chain[i + 1]) # chain[i + 1].chainHash THEN FALSE
    ELSE verifyChain(chain, i + 1)

\* Array.prototype.filter
RECURSIVE getEvidenceForDetection(_, _)
getEvidenceForDetection(chain, detectionId) ==
    IF chain = <<>> THEN <<>>
    ELSE (IF Head(chain).detectionId = detectionId THEN <<Head(chain)>> ELSE <<>>)
         \o getEvidenceForDetection(Tail(chain), detectionId)

\* evidence item types, as sequences of characters, and the keywords
\* mapEvidenceType looks for
Str_visual == <<"v", "i", "s", "u", "a", "l">>
Str_face == <<"f", "a", "c", "e">>
Str_voice == <<"v", "o", "i", "c", "e">>
Str_pattern == <<"p", "a", "t", "t", "e", "r", "n">>
Str_metadata == <<"m", "e", "t", "a", "d", "a", "t", "a">>
Str_hash == <<"h", "a", "s", "h">>

ItemTypes == {Str_face, Str_voice, Str_text, Str_metadata, Str_hash}

mapEvidenceType(type) ==
    IF Includes(type, Str_visual) \/ Includes(type, Str_face)
        THEN "visual_artifact"
    ELSE IF Includes(type, Str_audio) \/ Includes(type, Str_voice)
        THEN "audio_anomaly"
    ELSE IF Includes(type, Str_text) \/ Includes(type, Str_pattern)
        THEN "text_pattern"
    ELSE IF Includes(type, Str_metadata)
        THEN "metadata_inconsistency"
    ELSE "blockchain_proof"

\* the DetectionResults a caller passes to collectFromDetection: their
\* evidence items and modelVersion; confidence is in tenths
DetectionInputs ==
    {[evidence |-> <<>>, modelVersion |-> "v1"]}
    \cup {[evidence |-> <<[type |-> t, description |-> "d",
                          confidence |-> c, metadata |-> Undefined]>>,
           modelVersion |-> "v1"] : t \in ItemTypes, c \in {9}}

\* collectFromDetection: one Evidence per item; n is the number of Evidence
\* records made before (crypto.randomUUID() gives each a fresh id)
collectFromDetection(detectionId, result, n, t) ==
    [k \in 1..Len(result.evidence) |->
        LET item == result.evidence[k]
        IN  [id |-> <<"uuid", n + k>>,
             detectionId |-> detectionId,
             type |-> mapEvidenceType(item.type),
             proof |-> Field("description", item.description)
                       \o Field("confidence", item.confidence)
                       \o OptionalField("metadata", item.metadata)
                       \o Field("modelVersion", result.modelVersion),
             dkgUal |-> Undefined,
             confidence |-> item.confidence,
             validatedBy |-> <<>>,
             createdAt |-> t]]

\* validateEvidence: the evidence with validatorId pushed unless present
validateEvidence(ev, validatorId) ==
    IF \E i \in 1..Len(ev.validatedBy) : ev.validatedBy[i] = validatorId
    THEN ev
    ELSE [ev EXCEPT !.validatedBy = Append(@, validatorId)]

Min(a, b) == IF a <= b THEN a ELSE b

Max(a, b) == IF a >= b THEN a ELSE b

\* calculateTrustScore, in hundredths
calculateTrustScore(ev) ==
    LET score == ev.confidence * 6
        validatorBonus == Min(Len(ev.validatedBy) * 10, 30)
        dkgBonus == IF ev.dkgUal # Undefined THEN 10 ELSE 0
    IN  Min(score + validatorBonus + dkgBonus, 100)

\* what a call of a leaf component returned
Ret(op, value) == [op |-> op, value |-> value]

\* time passes between two calls
Tick ==
    /\ now' = now + 1
    /\ UNCHANGED <<swarmVars, evidenceChain, tamper, evidence, dkgCalls, consensusVars, ret>>

\* a caller invokes addToChain(evidenceId, detectionId); the clock advances by
\* d ms between its two Date.now() calls
AddToChain(evidenceId, detectionId, d) ==
    LET block == addToChain(evidenceChain, evidenceId, detectionId, now, now + d)
    IN  /\ evidenceChain' = Append(evidenceChain, block)
        /\ now' = now + d
        /\ ret' = Ret("addToChain", block)
        /\ UNCHANGED <<swarmVars, tamper, evidence, dkgCalls, consensusVars>>

\* a caller invokes verifyChain()
VerifyChain ==
    /\ ret' = Ret("verifyChain", verifyChain(evidenceChain, 1))
    /\ UNCHANGED <<swarmVars, collectorVars, consensusVars>>

\* getEvidenceForDetection as it would be if it took the blocks out of the
\* ledger
GetEvidenceForDetection_Take(detectionId) ==
    /\ ret' = Ret("getEvidenceForDetection",
                  getEvidenceForDetection(evidenceChain, detectionId))
    /\ evidenceChain' = SelectSeq(evidenceChain,
                                  LAMBDA b : b.detectionId # detectionId)
    /\ UNCHANGED <<swarmVars, now, tamper, evidence, dkgCalls, consensusVars>>

\* a caller invokes getEvidenceForDetection(detectionId)
GetEvidenceForDetection(detectionId) ==
    /\ ret' = Ret("getEvidenceForDetection",
                  getEvidenceForDetection(evidenceChain, detectionId))
    /\ UNCHANGED <<swarmVars, collectorVars, consensusVars>>

\* a caller invokes collectFromDetection(detectionId, result) and keeps the
\* Evidence records it returns
CollectFromDetection(detectionId, result) ==
    LET made == collectFromDetection(detectionId, result, Len(evidence), now)
    IN  /\ evidence' = evidence \o made
        /\ ret' = Ret("collectFromDetection", made)
        /\ UNCHANGED <<swarmVars, evidenceChain, now, tamper, dkgCalls, consensusVars>>

\* a caller invokes validateEvidence(evidence[k], validatorId), which writes
\* to the record it is given
ValidateEvidence(k, validatorId) ==
    /\ k \in 1..Len(evidence)
    /\ evidence' = [evidence EXCEPT ![k] = validateEvidence(@, validatorId)]
    /\ ret' = Ret("validateEvidence", evidence'[k])
    /\ UNCHANGED <<swarmVars, evidenceChain, now, tamper, dkgCalls, consensusVars>>

\* a caller invokes calculateTrustScore(evidence[k])
CalculateTrustScore(k) ==
    /\ k \in 1..Len(evidence)
    /\ ret' = Ret("calculateTrustScore", calculateTrustScore(evidence[k]))
    /\ UNCHANGED <<swarmVars, collectorVars, consensusVars>>

\* the values a stored field of a block can be overwritten with
TamperValues(field) ==
    CASE field = "chainHash" ->
            {ForeignHash} \cup {evidenceChain[j].chainHash : j \in 1..Len(evidenceChain)}
      [] field = "previousHash" ->
            {ForeignHash, Undefined}
            \cup {evidenceChain[j].chainHash : j \in 1..Len(evidenceChain)}
      [] field = "evidenceId" -> EvidenceIds
      [] field = "detectionId" -> DetectionIds
      [] field = "blockNumber" -> 0..MaxBlocks
      [] field = "timestamp" -> 0..MaxClock

BlockFields ==
    {"evidenceId", "detectionId", "chainHash", "previousHash", "blockNumber",
     "timestamp"}

\* somebody with access to the storage overwrites one stored field of block i
\* with another value
Tamper(i, field, value) ==
    /\ i \in 1..Len(evidenceChain)
    /\ [block |-> i, field |-> field] \notin tamper
    /\ value # evidenceChain[i][field]
    /\ evidenceChain' = [evidenceChain EXCEPT ![i][field] = value]
    /\ tamper' = tamper \cup {[block |-> i, field |-> field]}
    /\ UNCHANGED <<swarmVars, now, evidence, dkgCalls, consensusVars, ret>>

\* callers that store an Evidence on the DKG and then record it in the ledger
MaxAppenders == 3

\* a caller invokes `await storeOnDKG(evidence, dkgClient)` for an Evidence it
\* will record with addToChain afterwards; storeOnDKG builds the knowledge
\* asset and suspends on dkgClient.publish (started: the ledger's length at
\* that moment; block: the block the caller appended, 0 while it has not)
StoreOnDKG(evidenceId, detectionId) ==
    /\ mq = <<>>
    /\ dkgCalls' = Append(dkgCalls,
          [evidenceId |-> evidenceId, detectionId |-> detectionId,
           pc |-> "publish", started |-> Len(evidenceChain), block |-> 0])
    /\ UNCHANGED <<swarmVars, evidenceChain, now, tamper, evidence,
                   consensusVars, ret>>

\* dkgClient.publish of activation c resolves (ok) or rejects
PublishSettles(c, ok) ==
    /\ c \in 1..Len(dkgCalls)
    /\ dkgCalls[c].pc = "publish"
    /\ dkgCalls' = [dkgCalls EXCEPT ![c].pc = "storeOnDKG"]
    /\ mq' = Append(mq, Cont("storeOnDKG", 0, c, ok, Undefined))
    /\ UNCHANGED <<agents, tasks, taskQueue, calls, evidenceChain, now, tamper,
                   evidence, consensusVars, ret>>

\* microtask: storeOnDKG resumes after `await dkgClient.publish` and returns
\* the UAL or throws, which settles the promise its caller awaits
StoreOnDKGResumes ==
    /\ mq # <<>>
    /\ Head(mq).k = "storeOnDKG"
    /\ dkgCalls' = [dkgCalls EXCEPT ![Head(mq).c].pc = "caller"]
    /\ mq' = Append(Tail(mq), Cont("caller", 0, Head(mq).c, Head(mq).ok, Undefined))
    /\ UNCHANGED <<agents, tasks, taskQueue, calls, evidenceChain, now, tamper,
                   evidence, consensusVars, ret>>

\* the caller as it would be if addToChain worked on the ledger the caller
\* saw before its await
CallerResumes_Snapshot(d) ==
    /\ mq # <<>>
    /\ Head(mq).k = "caller"
    /\ mq' = Tail(mq)
    /\ LET c == Head(mq).c
           seen == SubSeq(evidenceChain, 1, dkgCalls[c].started)
           block == addToChain(seen, dkgCalls[c].evidenceId,
                               dkgCalls[c].detectionId, now, now + d)
       IN  IF Head(mq).ok
           THEN /\ evidenceChain' = Append(evidenceChain, block)
                /\ now' = now + d
                /\ ret' = Ret("addToChain", block)
                /\ dkgCalls' = [dkgCalls EXCEPT ![c].pc = "appended",
                                                ![c].block = Len(evidenceChain')]
           ELSE /\ dkgCalls' = [dkgCalls EXCEPT ![c].pc = "failed"]
                /\ UNCHANGED <<evidenceChain, now, ret>>
    /\ UNCHANGED <<agents, tasks, taskQueue, calls, tamper, evidence,
                   consensusVars>>

\* microtask: the caller resumes after `await storeOnDKG`; when it resolved
\* the caller invokes addToChain(evidenceId, detectionId), the clock advancing
\* by d ms between its two Date.now() calls; when it rejected the caller
\* records nothing
CallerResumes(d) ==
    /\ mq # <<>>
    /\ Head(mq).k = "caller"
    /\ mq' = Tail(mq)
    /\ LET c == Head(mq).c
           block == addToChain(evidenceChain, dkgCalls[c].evidenceId,
                               dkgCalls[c].detectionId, now, now + d)
       IN  IF Head(mq).ok
           THEN /\ evidenceChain' = Append(evidenceChain, block)
                /\ now' = now + d
                /\ ret' = Ret("addToChain", block)
                /\ dkgCalls' = [dkgCalls EXCEPT ![c].pc = "appended",
                                                ![c].block = Len(evidenceChain')]
           ELSE /\ dkgCalls' = [dkgCalls EXCEPT ![c].pc = "failed"]
                /\ UNCHANGED <<evidenceChain, now, ret>>
    /\ UNCHANGED <<agents, tasks, taskQueue, calls, tamper, evidence,
                   consensusVars>>

\* stored fields overwritten in one behaviour
MaxTamper == 2

ValidatorIdOrder == <<"v1", "v2", "v3", "v4", "v5", "v6">>

\* SpecLedger: callers that append to the ledger and read it, while time passes
NextLedger ==
    \/ /\ now < MaxClock
       /\ Tick
    \/ /\ Len(evidenceChain) < MaxBlocks
       /\ \E evidenceId \in EvidenceIds, detectionId \in DetectionIds, d \in {0, 1} :
             /\ now + d <= MaxClock
             /\ AddToChain(evidenceId, detectionId, d)
    \/ VerifyChain
    \/ \E detectionId \in DetectionIds : GetEvidenceForDetection(detectionId)

SpecLedger == Init /\ [][NextLedger]_vars

\* SpecEvidence: a caller that uses every operation of the EvidenceCollector
NextEvidence ==
    \/ /\ Len(evidenceChain) < MaxBlocks
       /\ \E detectionId \in DetectionIds :
             AddToChain(EvidenceIdOrder[1], detectionId, 0)
    \/ VerifyChain
    \/ \E detectionId \in DetectionIds : GetEvidenceForDetection(detectionId)
    \/ \E detectionId \in DetectionIds, result \in DetectionInputs :
          /\ Len(evidence) + Len(result.evidence) <= MaxEvidence
          /\ CollectFromDetection(detectionId, result)
    \/ \E k \in 1..Len(evidence), i \in 1..2 :
          ValidateEvidence(k, ValidatorIdOrder[i])
    \/ \E k \in 1..Len(evidence) : CalculateTrustScore(k)

SpecEvidence == Init /\ [][NextEvidence]_vars

\* SpecTamper: a ledger built by addToChain whose stored blocks are then
\* overwritten from outside
NextTamper ==
    \/ /\ Len(evidenceChain) < MaxBlocks
       /\ tamper = {}
       /\ \E detectionId \in DetectionIds :
             AddToChain(EvidenceIdOrder[1], detectionId, 0)
    \/ /\ Cardinality(tamper) < MaxTamper
       /\ \E i \in 1..Len(evidenceChain), field \in BlockFields :
             \E value \in TamperValues(field) : Tamper(i, field, value)
    \/ VerifyChain

SpecTamper == Init /\ [][NextTamper]_vars

\* SpecOneBlock: a ledger of at most one block, holding whatever is written
\* into it
NextOneBlock ==
    \/ /\ now < MaxClock
       /\ Tick
    \/ /\ evidenceChain = <<>>
       /\ \E evidenceId \in EvidenceIds, detectionId \in DetectionIds, d \in {0, 1} :
             /\ now + d <= MaxClock
             /\ AddToChain(evidenceId, detectionId, d)
    \/ /\ Cardinality(tamper) < MaxTamper
       /\ \E i \in 1..Len(evidenceChain), field \in BlockFields :
             \E value \in TamperValues(field) : Tamper(i, field, value)
    \/ VerifyChain

SpecOneBlock == Init /\ [][NextOneBlock]_vars

\* SpecAppend: concurrent callers, each storing an Evidence on the DKG and then
\* recording it in the ledger; their publishes settle in any order, also
\* several within one task of the event loop
NextAppend ==
    \/ /\ Len(dkgCalls) < MaxAppenders
       /\ \E detectionId \in DetectionIds :
             StoreOnDKG(EvidenceIdOrder[1], detectionId)
    \/ \E c \in 1..Len(dkgCalls), ok \in BOOLEAN : PublishSettles(c, ok)
    \/ StoreOnDKGResumes
    \/ \E d \in {0, 1} : now + d <= MaxClock /\ CallerResumes(d)

SpecAppend == Init /\ [][NextAppend]_vars

(***************************************************************************)
(* ConsensusEngine.  Its numbers are IEEE doubles in the code; here they   *)
(* are exact fractions [num, den] in lowest terms with den > 0.  Division  *)
(* by zero gives what the double division gives: 0/0 is NaN, kept as       *)
(* [num |-> 0, den |-> 0], and NaN spreads through every operation and     *)
(* fails every comparison.                                                 *)
(***************************************************************************)
\* votes passed to one buildConsensus call
MaxVotes == 4
\* the largest totalValidations a validator is updated to
MaxValidations == 4

NaN == [num |-> 0, den |-> 0]

\* Infinity; -Infinity is [num |-> -1, den |-> 0]
Infinity == [num |-> 1, den |-> 0]

Abs(x) == IF x < 0 THEN -x ELSE x

RECURSIVE GCD(_, _)
GCD(a, b) == IF b = 0 THEN a ELSE GCD(b, a % b)

\* the number n/d (d # 0)
Rat(n, d) ==
    LET g == GCD(Abs(n), Abs(d))
        sign == IF d < 0 THEN -1 ELSE 1
    IN  [num |-> sign * (n \div g), den |-> sign * (d \div g)]

IsNaN(a) == a.den = 0 /\ a.num = 0

IsInfinite(a) == a.den = 0 /\ a.num # 0

\* -1, 0 or 1
Sign(a) == IF a.num > 0 THEN 1 ELSE IF a.num < 0 THEN -1 ELSE 0

Plus(a, b) ==
    IF IsNaN(a) \/ IsNaN(b) THEN NaN
    ELSE IF IsInfinite(a) /\ IsInfinite(b) THEN (IF a = b THEN a ELSE NaN)
    ELSE IF IsInfinite(a) THEN a
    ELSE IF IsInfinite(b) THEN b
    ELSE Rat(a.num * b.den + b.num * a.den, a.den * b.den)

Minus(a, b) == Plus(a, [num |-> -b.num, den |-> b.den])

Times(a, b) ==
    IF IsNaN(a) \/ IsNaN(b) THEN NaN
    ELSE IF IsInfinite(a) \/ IsInfinite(b)
         THEN [num |-> Sign(a) * Sign(b), den |-> 0]
    ELSE Rat(a.num * b.num, a.den * b.den)

\* a / b; a zero divisor gives NaN for 0/0 and an infinity otherwise (the
\* zeros the program divides by are sums that start at 0, hence +0)
Divide(a, b) ==
    IF IsNaN(a) \/ IsNaN(b) \/ (IsInfinite(a) /\ IsInfinite(b)) THEN NaN
    ELSE IF IsInfinite(a) THEN [num |-> Sign(a) * (IF b.num < 0 THEN -1 ELSE 1), den |-> 0]
    ELSE IF IsInfinite(b) THEN Rat(0, 1)
    ELSE IF b.num = 0 THEN [num |-> Sign(a), den |-> 0]
    ELSE Rat(a.num * b.den, a.den * b.num)

\* a >= b on doubles: false when either is NaN
Geq(a, b) ==
    /\ ~IsNaN(a)
    /\ ~IsNaN(b)
    /\ IF IsInfinite(a) /\ IsInfinite(b) THEN a.num >= b.num
       ELSE a.num * b.den >= b.num * a.den

\* a > b on doubles: false when either is NaN
Gt(a, b) == Geq(a, b) /\ a # b

\* Math.abs
MathAbs(a) == [num |-> Abs(a.num), den |-> a.den]

\* Math.min and Math.max of two numbers
MathMin(a, b) == IF IsNaN(a) \/ IsNaN(b) THEN NaN ELSE IF Geq(a, b) THEN b ELSE a

MathMax(a, b) == IF IsNaN(a) \/ IsNaN(b) THEN NaN ELSE IF Geq(a, b) THEN a ELSE b

\* Math.log10 of a power of ten
RECURSIVE log10(_)
log10(x) == IF x <= 1 THEN 0 ELSE 1 + log10(x \div 10)

\* calculateValidatorWeight
calculateValidatorWeight(validator) ==
    LET reputationWeight == Divide(validator.reputation, Rat(100, 1))
        accuracyWeight == validator.accuracyRate
        stakeWeight == Divide(Rat(log10(validator.stake + 1), 1), Rat(10, 1))
    IN  Plus(Plus(Times(reputationWeight, Rat(4, 10)),
                  Times(accuracyWeight, Rat(4, 10))),
             Times(stakeWeight, Rat(2, 10)))

\* calculateConfidence
calculateConfidence(votes, totalVotes, weightedScore, consensusReached) ==
    LET maxVotes == Max(Max(votes.authentic, votes.synthetic), votes.uncertain)
        majorityRatio == Rat(maxVotes, totalVotes)
        agreementFactor == IF consensusReached THEN Rat(1, 1) ELSE Rat(1, 2)
        scoreFactor == Times(MathAbs(Minus(weightedScore, Rat(1, 2))), Rat(2, 1))
    IN  Plus(Plus(Times(majorityRatio, Rat(1, 2)),
                  Times(scoreFactor, Rat(3, 10))),
             Times(agreementFactor, Rat(2, 10)))

\* Map.prototype.get on the registry
Get(registry, validatorId) ==
    IF validatorId \in DOMAIN registry THEN registry[validatorId] ELSE Undefined

\* the loop of buildConsensus over votes[i..]: acc holds voteCounts,
\* totalWeight and weightedSyntheticScore
RECURSIVE countVotes(_, _, _, _)
countVotes(votes, registry, i, acc) ==
    IF i > Len(votes) THEN acc
    ELSE LET vote == votes[i]
             validator == Get(registry, vote.validatorId)
             weight == calculateValidatorWeight(validator)
             share == CASE vote.vote = "synthetic" -> vote.confidence
                        [] vote.vote = "authentic" ->
                              Minus(Rat(1, 1), vote.confidence)
                        [] OTHER -> Rat(1, 2)
         IN  IF validator = Undefined \/ ~validator.isActive
             THEN countVotes(votes, registry, i + 1, acc)
             ELSE countVotes(votes, registry, i + 1,
                    [voteCounts |->
                        [acc.voteCounts EXCEPT ![vote.vote] = @ + 1],
                     totalWeight |-> Plus(acc.totalWeight, weight),
                     weightedSyntheticScore |->
                        Plus(acc.weightedSyntheticScore, Times(weight, share))])

\* consensusThreshold and minimumValidators
consensusThreshold == Rat(67, 100)

minimumValidators == 3

\* the rest of buildConsensus as it would be if the verdict were taken from
\* the weighted score
consensusOf_WeightedVerdict(votes, registry) ==
    LET acc == countVotes(votes, registry, 1,
                   [voteCounts |-> [authentic |-> 0, synthetic |-> 0, uncertain |-> 0],
                    totalWeight |-> Rat(0, 1),
                    weightedSyntheticScore |-> Rat(0, 1)])
        weightedScore == Divide(acc.weightedSyntheticScore, acc.totalWeight)
        totalVotes == Len(votes)
        verdict == IF Geq(weightedScore, consensusThreshold) THEN "synthetic"
                   ELSE IF Geq(Minus(Rat(1, 1), weightedScore), consensusThreshold)
                   THEN "authentic"
                   ELSE "disputed"
        consensusReached == verdict # "disputed"
    IN  [verdict |-> verdict,
         confidence |-> calculateConfidence(acc.voteCounts, totalVotes,
                                            weightedScore, consensusReached),
         votes |-> acc.voteCounts,
         weightedScore |-> weightedScore,
         participatingValidators |-> Len(votes),
         consensusReached |-> consensusReached]

\* the rest of buildConsensus, after the quorum check
consensusOf(votes, registry) ==
    LET acc == countVotes(votes, registry, 1,
                   [voteCounts |-> [authentic |-> 0, synthetic |-> 0, uncertain |-> 0],
                    totalWeight |-> Rat(0, 1),
                    weightedSyntheticScore |-> Rat(0, 1)])
        weightedScore == Divide(acc.weightedSyntheticScore, acc.totalWeight)
        totalVotes == Len(votes)
        syntheticRatio == Rat(acc.voteCounts.synthetic, totalVotes)
        authenticRatio == Rat(acc.voteCounts.authentic, totalVotes)
        verdict == IF Geq(syntheticRatio, consensusThreshold) THEN "synthetic"
                   ELSE IF Geq(authenticRatio, consensusThreshold) THEN "authentic"
                   ELSE "disputed"
        consensusReached == verdict # "disputed"
    IN  [verdict |-> verdict,
         confidence |-> calculateConfidence(acc.voteCounts, totalVotes,
                                            weightedScore, consensusReached),
         votes |-> acc.voteCounts,
         weightedScore |-> weightedScore,
         participatingValidators |-> Len(votes),
         consensusReached |-> consensusReached]

\* buildConsensus as it would be with a quorum of two
buildConsensus_QuorumOfTwo(votes, registry) ==
    IF Len(votes) < 2
    THEN [ok |-> FALSE, res |-> Undefined]
    ELSE [ok |-> TRUE, res |-> consensusOf(votes, registry)]

\* buildConsensus: it throws (ok = FALSE) or returns res
buildConsensus(votes, registry) ==
    IF Len(votes) < minimumValidators
    THEN [ok |-> FALSE, res |-> Undefined]
    ELSE [ok |-> TRUE, res |-> consensusOf(votes, registry)]

\* updateValidatorReputation as it would be if a wrong vote cost what a right
\* one earns
updateValidatorReputation_Symmetric(validator, wasCorrect, confidence) ==
    LET reputationChange == IF wasCorrect THEN Times(confidence, Rat(5, 1))
                            ELSE Times(Minus(Rat(0, 1), confidence), Rat(5, 1))
        newReputation ==
            MathMax(Rat(0, 1),
                    MathMin(Rat(100, 1), Plus(validator.reputation, reputationChange)))
        newAccuracyRate ==
            Divide(Plus(Times(validator.accuracyRate,
                              Rat(validator.totalValidations, 1)),
                        Rat(IF wasCorrect THEN 1 ELSE 0, 1)),
                   Rat(validator.totalValidations + 1, 1))
    IN  [validator EXCEPT !.reputation = newReputation,
                          !.totalValidations = validator.totalValidations + 1,
                          !.accuracyRate = newAccuracyRate]

\* updateValidatorReputation
updateValidatorReputation(validator, wasCorrect, confidence) ==
    LET reputationChange == IF wasCorrect THEN Times(confidence, Rat(5, 1))
                            ELSE Times(Minus(Rat(0, 1), confidence), Rat(10, 1))
        newReputation ==
            MathMax(Rat(0, 1),
                    MathMin(Rat(100, 1), Plus(validator.reputation, reputationChange)))
        newAccuracyRate ==
            Divide(Plus(Times(validator.accuracyRate,
                              Rat(validator.totalValidations, 1)),
                        Rat(IF wasCorrect THEN 1 ELSE 0, 1)),
                   Rat(validator.totalValidations + 1, 1))
    IN  [validator EXCEPT !.reputation = newReputation,
                          !.totalValidations = validator.totalValidations + 1,
                          !.accuracyRate = newAccuracyRate]

\* validators a registry may hold: an inactive one, an active one of weight
\* 0, an active one of weight 0.7
InactiveValidator ==
    [reputation |-> Rat(80, 1), stake |-> 99, totalValidations |-> 2,
     accuracyRate |-> Rat(9, 10), isActive |-> FALSE]

WeightlessValidator ==
    [reputation |-> Rat(0, 1), stake |-> 0, totalValidations |-> 0,
     accuracyRate |-> Rat(0, 1), isActive |-> TRUE]

ActiveValidator ==
    [reputation |-> Rat(80, 1), stake |-> 9, totalValidations |-> 2,
     accuracyRate |-> Rat(9, 10), isActive |-> TRUE]

Profiles == {InactiveValidator, WeightlessValidator, ActiveValidator}

\* the validators that cast the votes: vote i is cast by ValidatorIdOrder[i]
VoterIds == {ValidatorIdOrder[i] : i \in 1..MaxVotes}

\* the registries: each voter is registered with some profile or unknown
Registries == UNION {[D -> Profiles] : D \in SUBSET VoterIds}

VoteChoices ==
    {[vote |-> "synthetic", confidence |-> Rat(9, 10)],
     [vote |-> "authentic", confidence |-> Rat(9, 10)],
     [vote |-> "uncertain", confidence |-> Rat(5, 10)]}

\* the ValidationVote list of a ballot
VotesOf(choice) ==
    [i \in DOMAIN choice |->
        [validatorId |-> ValidatorIdOrder[i],
         vote |-> choice[i].vote,
         confidence |-> choice[i].confidence]]

\* a caller invokes buildConsensus(votes, validators)
BuildConsensus(votes) ==
    /\ ret' = [op |-> "buildConsensus", votes |-> votes,
               value |-> buildConsensus(votes, validators)]
    /\ UNCHANGED <<swarmVars, collectorVars, consensusVars>>

\* the registry's owner invokes updateValidatorReputation on a validator and
\* stores the validator it returns
UpdateValidatorReputation(validatorId, wasCorrect, confidence) ==
    LET validator == validators[validatorId]
        updated == updateValidatorReputation(validator, wasCorrect, confidence)
    IN  /\ validators' = [validators EXCEPT ![validatorId] = updated]
        /\ ret' = [op |-> "updateValidatorReputation", validator |-> validator,
                   wasCorrect |-> wasCorrect, confidence |-> confidence,
                   value |-> updated]
        /\ UNCHANGED <<swarmVars, collectorVars>>

\* SpecConsensus: one buildConsensus call, on every ballot and registry
InitConsensus ==
    /\ InitSwarm
    /\ InitCollector
    /\ validators \in Registries
    /\ ret = NoCall

NextConsensus ==
    /\ ret = NoCall
    /\ \E n \in 0..MaxVotes : \E choice \in [1..n -> VoteChoices] :
          BuildConsensus(VotesOf(choice))

SpecConsensus == InitConsensus /\ [][NextConsensus]_vars

\* SpecWeights: one buildConsensus call, on every ballot, under the registries
\* whose validators are active with one weight or the other, but for the
\* first voter, who is active, inactive or unknown
WeightRegistries ==
    {registry \in Registries :
        /\ \A id \in VoterIds \ {ValidatorIdOrder[1]} :
              id \in DOMAIN registry /\ registry[id].isActive
        /\ ValidatorIdOrder[1] \in DOMAIN registry =>
              registry[ValidatorIdOrder[1]] # WeightlessValidator}

InitWeights ==
    /\ InitSwarm
    /\ InitCollector
    /\ validators \in WeightRegistries
    /\ ret = NoCall

SpecWeights == InitWeights /\ [][NextConsensus]_vars

\* SpecReputation: sequences of reputation updates of one validator
ReputationProfiles ==
    {[reputation |-> Rat(r, 1), stake |-> 9, totalValidations |-> n,
      accuracyRate |-> a, isActive |-> TRUE] :
        r \in {0, 3, 80, 98, 100}, n \in {0, 2}, a \in {Rat(0, 1), Rat(1, 2), Rat(1, 1)}}

Confidences == {Rat(0, 1), Rat(8, 10), Rat(1, 1)}

InitReputation ==
    /\ InitSwarm
    /\ InitCollector
    /\ validators \in {[id \in {ValidatorIdOrder[1]} |-> p] : p \in ReputationProfiles}
    /\ ret = NoCall

NextReputation ==
    \E validatorId \in DOMAIN validators, wasCorrect \in BOOLEAN,
       confidence \in Confidences :
        /\ validators[validatorId].totalValidations < MaxValidations
        /\ UpdateValidatorReputation(validatorId, wasCorrect, confidence)

SpecReputation == InitReputation /\ [][NextReputation]_vars

(***************************************************************************)
(* Detection fusion (detection/fusion.ts): fuseDetectionResults and the    *)
(* three fusion methods, computed on exact fractions as the engine's       *)
(* numbers are.  A call either throws (ok = FALSE, with the kind of the    *)
(* error) or returns a FusionResult.                                       *)
(***************************************************************************)
\* results passed to one fuseDetectionResults call
MaxResults == 3

\* ModalityEnum; result i of an input list is of modality ModalityOrder[i]
ModalityOrder == <<"visual", "audio", "text", "metadata", "fusion">>

DEFAULT_WEIGHTS ==
    [visual |-> Rat(35, 100), audio |-> Rat(35, 100),
     text |-> Rat(20, 100), metadata |-> Rat(10, 100)]

\* x || fallback for a number or undefined x
OrElse(x, fallback) ==
    IF x = Undefined \/ IsNaN(x) \/ x = Rat(0, 1) THEN fallback ELSE x

\* weights[modality] || 0.25
weightOf(weights, modality) ==
    OrElse(IF modality \in DOMAIN weights THEN weights[modality] ELSE Undefined,
           Rat(25, 100))

\* the loop of weightedAverageFusion from result i on
RECURSIVE weightedSums(_, _, _, _)
weightedSums(results, weights, i, acc) ==
    IF i > Len(results) THEN acc
    ELSE LET result == results[i]
             weight == weightOf(weights, result.modality)
             signed == Times(Times(result.confidence, weight),
                             Rat(IF result.isSynthetic THEN 1 ELSE -1, 1))
         IN  weightedSums(results, weights, i + 1,
                          [totalWeight |-> Plus(acc.totalWeight, weight),
                           weightedSum |-> Plus(acc.weightedSum, signed)])

weightedAverageFusion(results, weights, threshold) ==
    LET sums == weightedSums(results, weights, 1,
                    [totalWeight |-> Rat(0, 1), weightedSum |-> Rat(0, 1)])
        normalizedConfidence == MathAbs(Divide(sums.weightedSum, sums.totalWeight))
        isSynthetic == Gt(sums.weightedSum, Rat(0, 1))
    IN  [finalConfidence |-> normalizedConfidence,
         isSynthetic |-> IF Geq(normalizedConfidence, threshold)
                         THEN isSynthetic ELSE FALSE]

\* votes.reduce((sum, v) => sum + v.confidence, 0) from result i on
RECURSIVE sumConfidence(_, _, _)
sumConfidence(results, i, sum) ==
    IF i > Len(results) THEN sum
    ELSE sumConfidence(results, i + 1, Plus(sum, results[i].confidence))

votingFusion(results, threshold) ==
    LET syntheticVotes ==
            Cardinality({i \in 1..Len(results) : results[i].isSynthetic})
        authenticVotes == Len(results) - syntheticVotes
        isSynthetic == syntheticVotes > authenticVotes
        avgConfidence == Divide(sumConfidence(results, 1, Rat(0, 1)),
                                Rat(Len(results), 1))
    IN  [finalConfidence |-> avgConfidence,
         isSynthetic |-> Geq(avgConfidence, threshold) /\ isSynthetic]

\* the pairs (i, j), i < j, in the order the nested loops visit them
RECURSIVE pairsFrom(_, _, _)
pairsFrom(n, i, j) ==
    IF i > n THEN <<>>
    ELSE IF j > n THEN pairsFrom(n, i + 1, i + 2)
    ELSE <<(<<i, j>>)>> \o pairsFrom(n, i, j + 1)

RECURSIVE agreementOver(_, _, _, _)
agreementOver(results, pairs, k, agreementSum) ==
    IF k > Len(pairs) THEN agreementSum
    ELSE LET r1 == results[pairs[k][1]]
             r2 == results[pairs[k][2]]
             agree == r1.isSynthetic = r2.isSynthetic
             weight == Divide(Plus(r1.confidence, r2.confidence), Rat(2, 1))
         IN  agreementOver(results, pairs, k + 1,
                           Plus(agreementSum, IF agree THEN weight ELSE Rat(0, 1)))

calculateCrossModalAgreement(results) ==
    IF Len(results) < 2 THEN Rat(1, 1)
    ELSE LET pairs == pairsFrom(Len(results), 1, 2)
             comparisons == Len(pairs)
             agreementSum == agreementOver(results, pairs, 1, Rat(0, 1))
         IN  IF comparisons > 0
             THEN Divide(agreementSum, Rat(comparisons, 1))
             ELSE Rat(1, 1)

deepFusion(results, weights, threshold) ==
    LET base == weightedAverageFusion(results, weights, threshold)
        agreement == calculateCrossModalAgreement(results)
        adjustedConfidence ==
            Times(base.finalConfidence,
                  Plus(Rat(7, 10), Times(Rat(3, 10), agreement)))
    IN  [finalConfidence |-> adjustedConfidence,
         isSynthetic |-> Geq(adjustedConfidence, threshold) /\ base.isSynthetic]

\* calculateRiskScore as it would be if a non-synthetic verdict kept its risk
calculateRiskScore_Always(confidence, isSynthetic, results) ==
    LET syntheticCount ==
            Cardinality({i \in 1..Len(results) : results[i].isSynthetic})
        modalityMultiplier ==
            Plus(Rat(1, 1), Times(Rat(syntheticCount - 1, 1), Rat(2, 10)))
    IN  MathMin(Times(Times(confidence, Rat(10, 1)), modalityMultiplier),
                Rat(10, 1))

calculateRiskScore(confidence, isSynthetic, results) ==
    IF ~isSynthetic THEN Rat(0, 1)
    ELSE LET syntheticCount ==
                 Cardinality({i \in 1..Len(results) : results[i].isSynthetic})
             modalityMultiplier ==
                 Plus(Rat(1, 1), Times(Rat(syntheticCount - 1, 1), Rat(2, 10)))
         IN  MathMin(Times(Times(confidence, Rat(10, 1)), modalityMultiplier),
                     Rat(10, 1))

FusionMethods == {"weighted_average", "voting", "deep_fusion"}

\* the FusionResult of a non-empty input under a known method (the
\* explanation text is left out)
fused(results, config) ==
    LET weights == IF config.weights = Undefined
                   THEN DEFAULT_WEIGHTS ELSE config.weights
        threshold == OrElse(config.threshold, Rat(5, 10))
        verdict == CASE config.method = "weighted_average"
                          -> weightedAverageFusion(results, weights, threshold)
                     [] config.method = "voting"
                          -> votingFusion(results, threshold)
                     [] config.method = "deep_fusion"
                          -> deepFusion(results, weights, threshold)
    IN  [finalConfidence |-> verdict.finalConfidence,
         isSynthetic |-> verdict.isSynthetic,
         modalityResults |-> results,
         fusionMethod |-> config.method,
         riskScore |-> calculateRiskScore(verdict.finalConfidence,
                                          verdict.isSynthetic, results)]

Thrown(error) == [ok |-> FALSE, error |-> error, res |-> Undefined]

\* fuseDetectionResults as it would be if the method were looked at first
fuseDetectionResultsWith_MethodFirst(results, config) ==
    IF config.method \notin FusionMethods THEN Thrown("Unknown fusion method")
    ELSE IF Len(results) = 0
    THEN Thrown("Cannot fuse empty detection results")
    ELSE [ok |-> TRUE, error |-> Undefined, res |-> fused(results, config)]

\* fuseDetectionResults(results, config)
fuseDetectionResultsWith(results, config) ==
    IF Len(results) = 0 THEN Thrown("Cannot fuse empty detection results")
    ELSE IF config.method \notin FusionMethods
    THEN Thrown("Unknown fusion method")
    ELSE [ok |-> TRUE, error |-> Undefined, res |-> fused(results, config)]

\* the inputs: confidences, weights configurations and thresholds
FusionConfidences == {Rat(3, 10), Rat(8, 10), Rat(85, 100), Rat(9, 10)}

ResultChoices ==
    {[isSynthetic |-> b, confidence |-> c] :
        b \in BOOLEAN, c \in FusionConfidences}

\* the DetectionResult list of a choice: result i is of modality i
ResultsOf(choice) ==
    [i \in DOMAIN choice |->
        [modality |-> ModalityOrder[i],
         isSynthetic |-> choice[i].isSynthetic,
         confidence |-> choice[i].confidence]]

\* no weights, a partial configuration with a negative weight, and a full
\* one with a zero weight
WeightsChoices ==
    {Undefined,
     [visual |-> Rat(1, 2), audio |-> Rat(-1, 2)],
     [visual |-> Rat(0, 1), audio |-> Rat(1, 1),
      text |-> Rat(2, 10), metadata |-> Rat(1, 10)]}

ThresholdChoices == {Undefined, Rat(0, 1), Rat(5, 10), Rat(9, 10)}

FusionConfigs ==
    {[method |-> m, weights |-> w, threshold |-> t] :
        m \in FusionMethods \cup {"average"},
        w \in WeightsChoices, t \in ThresholdChoices}

\* a caller invokes fuseDetectionResults(results, config)
FuseDetectionResults(results, config) ==
    /\ ret' = [op |-> "fuseDetectionResults", results |-> results,
               config |-> config,
               value |-> fuseDetectionResultsWith(results, config)]
    /\ UNCHANGED <<swarmVars, collectorVars, consensusVars>>

\* SpecFusion: one fuseDetectionResults call, on every input and configuration
NextFusion ==
    /\ ret = NoCall
    /\ \E config \in FusionConfigs :
          \E n \in 0..MaxResults : \E choice \in [1..n -> ResultChoices] :
             FuseDetectionResults(ResultsOf(choice), config)

SpecFusion == Init /\ [][NextFusion]_vars

(***************************************************************************)
(* Properties.                                                             *)
(***************************************************************************)
Terminal == {"completed", "failed"}

TaskIds == 1..Len(tasks)

CallIds == 1..Len(calls)

Queued == {taskQueue[i] : i \in 1..Len(taskQueue)}

DetectionTypes ==
    {"visual_specialist", "audio_specialist", "text_specialist", "metadata_analyst"}

\* the status writes a task may see, in order
Lifecycle(l) ==
    /\ Len(l) \in 1..4
    /\ l[1] = "pending"
    /\ Len(l) >= 2 => l[2] = "assigned"
    /\ Len(l) >= 3 => l[3] = "processing"
    /\ Len(l) = 4 => l[4] \in Terminal

\* C1: every task is created pending and its status is only ever written
\* along pending -> assigned -> processing -> (completed | failed), never
\* backward and never again once it is completed or failed
C1_TaskLifecycle ==
    \A t \in TaskIds :
        /\ Lifecycle(tasks[t].log)
        /\ tasks[t].status = tasks[t].log[Len(tasks[t].log)]

\* C1 witness: a task failed and stayed failed while the scheduler made a
\* later assignment pass that ran another task to completion
C1_Witness ==
    \E t, u \in TaskIds :
        /\ t < u
        /\ tasks[t].status = "failed"
        /\ tasks[u].status = "completed"
        /\ taskQueue = <<>>
        /\ mq = <<>>

\* C2: a pending task that the dispatcher could not assign is still in the
\* task queue, ahead of every later-enqueued task of its priority
C2_PendingStaysQueued ==
    \A t \in TaskIds :
        tasks[t].status = "pending" =>
            \E i \in 1..Len(taskQueue) :
                /\ taskQueue[i] = t
                /\ \A j \in 1..(i - 1) :
                      tasks[taskQueue[j]].priority = tasks[t].priority
                          => taskQueue[j] < t

\* nothing is left to run: no microtask is queued, no analyzer or timer is
\* outstanding and every verifyContent call has returned or thrown
Quiescent ==
    /\ mq = <<>>
    /\ \A t \in TaskIds : tasks[t].status \notin {"assigned", "processing"}
    /\ \A c \in CallIds : calls[c].pc = "done"

\* C3: queued work progresses until it is done: once nothing is left to run,
\* every task created by a verifyContent call is completed or failed
C3_QueuedWorkProgresses ==
    Quiescent => \A t \in TaskIds : tasks[t].by # 0 => tasks[t].status \in Terminal

\* C5: while a call's fusion task exists, every detection task of that call
\* is completed or failed
C5_FusionAfterDetection ==
    \A f \in TaskIds :
        (tasks[f].type = "fusion_coordinator" /\ tasks[f].by # 0) =>
            \A i \in 1..Len(calls[tasks[f].by].tasks) :
                tasks[calls[tasks[f].by].tasks[i]].status \in Terminal

\* C5 witness: a call created its fusion task after a detection task of it
\* had failed and another had completed, while another call's task still runs
C5_Witness ==
    \E f \in TaskIds :
        /\ tasks[f].type = "fusion_coordinator"
        /\ tasks[f].by # 0
        /\ \E i \in 1..Len(calls[tasks[f].by].tasks) :
              tasks[calls[tasks[f].by].tasks[i]].status = "failed"
        /\ \E i \in 1..Len(calls[tasks[f].by].tasks) :
              tasks[calls[tasks[f].by].tasks[i]].status = "completed"
        /\ \E u \in TaskIds : tasks[u].status = "processing"

\* a continuation of verifyContent activation c is queued with outcome ok
Resuming(c, ok) ==
    \E i \in 1..Len(mq) :
        mq[i].k = "verifyContent" /\ mq[i].c = c /\ mq[i].ok = ok

\* the fusion tasks created by activation c
FusionTasksOf(c) ==
    {f \in TaskIds : tasks[f].type = "fusion_coordinator" /\ tasks[f].by = c}

\* C6: a wait that reaches its ceiling makes verifyContent throw the timeout
\* error; a call that timed out returned no FusionResult, and when it timed
\* out waiting for its detection tasks it created no fusion task
C6_TimeoutIsFatal ==
    \A c \in CallIds :
        /\ calls[c].waited <= maxWait
        /\ (calls[c].pc \in {"waitForTasks1", "waitForTasks2"}
              /\ calls[c].waited = maxWait)
             => (~calls[c].timer /\ Resuming(c, FALSE) /\ ~Resuming(c, TRUE))
        /\ Resuming(c, FALSE) => calls[c].waited = maxWait
        /\ calls[c].outcome = "Task timeout exceeded" =>
              /\ calls[c].result = Undefined
              /\ calls[c].at = "waitForTasks1" => FusionTasksOf(c) = {}

\* C6 witness: a call ended with the timeout error while one of its detection
\* tasks was still not completed or failed
C6_Witness ==
    \E c \in CallIds :
        /\ calls[c].outcome = "Task timeout exceeded"
        /\ calls[c].at = "waitForTasks1"
        /\ \E i \in 1..Len(calls[c].tasks) :
              tasks[calls[c].tasks[i]].status \notin Terminal

\* the detection tasks activation c recorded in its local `tasks`
DetectionTasksOf(c) == {calls[c].tasks[i] : i \in 1..Len(calls[c].tasks)}

Det(type, priority) == [type |-> type, priority |-> priority]

\* what the claim expects verifyContent to enqueue for each content type
ExpectedDetection(contentType) ==
    CASE contentType = Str_image ->
            {Det("visual_specialist", "high"), Det("metadata_analyst", "medium")}
      [] contentType = Str_video ->
            {Det("visual_specialist", "high"), Det("audio_specialist", "high"),
             Det("metadata_analyst", "medium")}
      [] contentType = Str_audio ->
            {Det("audio_specialist", "high"), Det("metadata_analyst", "medium")}
      [] contentType = Str_text ->
            {Det("text_specialist", "high"), Det("metadata_analyst", "medium")}
      [] contentType = Str_mixed ->
            {Det("metadata_analyst", "medium")}
      [] contentType = Str_textvideo ->
            {Det("visual_specialist", "high"), Det("audio_specialist", "high"),
             Det("text_specialist", "high"), Det("metadata_analyst", "medium")}

\* C4: a verifyContent call enqueues, for its contentId, exactly one detection
\* task per expected (type, priority) of its content type and no other, and
\* after them, once its wait for them has returned, exactly one
\* critical-priority fusion_coordinator task
C4_TasksPerContentType ==
    \A c \in CallIds :
        /\ {t \in TaskIds : tasks[t].by = c /\ tasks[t].type # "fusion_coordinator"}
              = DetectionTasksOf(c)
        /\ Cardinality(DetectionTasksOf(c)) = Len(calls[c].tasks)
        /\ Len(calls[c].tasks) = Cardinality(ExpectedDetection(calls[c].contentType))
        /\ {Det(tasks[t].type, tasks[t].priority) : t \in DetectionTasksOf(c)}
              = ExpectedDetection(calls[c].contentType)
        /\ \A t \in DetectionTasksOf(c) \cup FusionTasksOf(c) :
              tasks[t].contentId = calls[c].contentId
        /\ \A f \in FusionTasksOf(c) :
              /\ tasks[f].priority = "critical"
              /\ \A t \in DetectionTasksOf(c) : t < f
        /\ Cardinality(FusionTasksOf(c)) =
              IF \/ calls[c].pc \in {"processQueue2", "waitForTasks2"}
                 \/ calls[c].pc = "done" /\ calls[c].at = "waitForTasks2"
              THEN 1 ELSE 0

\* C4 witness: a "video" call has enqueued its three detection tasks and then
\* its fusion task
C4_Witness ==
    \E c \in CallIds :
        /\ calls[c].contentType = Str_video
        /\ Len(calls[c].tasks) = 3
        /\ FusionTasksOf(c) # {}

\* the tasks whose results a fusion result holds
FusedTasks(r) == {r.modalityResults[i].task : i \in 1..Len(r.modalityResults)}

\* C7: a completed fusion_coordinator task used deep_fusion and fused exactly
\* the results of the detection-type tasks of its contentId that were
\* completed when it ran
C7_FusesDetectionTasksOnly ==
    \A f \in TaskIds :
        (tasks[f].type = "fusion_coordinator" /\ tasks[f].status = "completed") =>
            /\ tasks[f].result.fusionMethod = "deep_fusion"
            /\ FusedTasks(tasks[f].result) =
                  {t \in tasks[f].seen :
                      /\ tasks[t].contentId = tasks[f].contentId
                      /\ tasks[t].type \in DetectionTypes}

\* the completed tasks of f's contentId that held a DetectionResult when f ran
DetectionResultsSeen(f) ==
    {t \in tasks[f].seen :
        /\ tasks[t].contentId = tasks[f].contentId
        /\ isDetectionResult(tasks[t].result)}

C10_QueueOrdered ==
    \A i, j \in 1..Len(taskQueue) :
        i < j =>
            LET a == tasks[taskQueue[i]]
                b == tasks[taskQueue[j]]
            IN  /\ getPriorityValue(a.priority) >= getPriorityValue(b.priority)
                /\ a.priority = b.priority => taskQueue[i] < taskQueue[j]

\* C10 witness: after a dequeue, a task was enqueued ahead of two queued tasks
\* of one priority
C10_Witness ==
    \E i, j, k \in 1..Len(taskQueue) :
        /\ i < j
        /\ j < k
        /\ tasks[taskQueue[j]].priority = tasks[taskQueue[k]].priority
        /\ tasks[taskQueue[i]].priority # tasks[taskQueue[j]].priority
        /\ taskQueue[i] > taskQueue[k]
        /\ \E t \in TaskIds : t < taskQueue[i] /\ tasks[t].status = "processing"

\* C11: after any sequence of addToChain calls, with the clock advancing
\* between and during the calls and nothing else writing to the ledger,
\* verifyChain() returns true
C11_BuiltLedgerVerifies ==
    verifyChain(evidenceChain, 1)

\* C12: the blocks appended by addToChain are numbered 0..N-1 in ledger order,
\* the first block has no previousHash and every later block's previousHash is
\* the chainHash of the block before it
C12_SequentialAndLinked ==
    \A i \in 1..Len(evidenceChain) :
        /\ evidenceChain[i].blockNumber = i - 1
        /\ evidenceChain[i].previousHash =
              IF i = 1 THEN Undefined ELSE evidenceChain[i - 1].chainHash

\* C12 witness: three blocks were appended, the clock having advanced during
\* one append and between two others
C12_Witness ==
    /\ Len(evidenceChain) >= 3
    /\ ret.op = "addToChain"
    /\ \E i \in 1..Len(evidenceChain) :
          calculatedHash(evidenceChain[i]) # evidenceChain[i].chainHash
    /\ \E i \in 2..Len(evidenceChain) :
          evidenceChain[i].timestamp > evidenceChain[i - 1].timestamp

\* C13: on a ledger of at least two blocks built by addToChain, after the
\* stored chainHash or previousHash of one block was changed, verifyChain()
\* returns false
C13_TamperDetected ==
    (/\ Len(evidenceChain) >= 2
     /\ Cardinality(tamper) = 1
     /\ \A w \in tamper : w.field \in {"chainHash", "previousHash"})
        => ~verifyChain(evidenceChain, 1)

\* C14: verifyChain() returns true on the empty ledger and on a ledger of one
\* block, whatever the block holds
C14_ShortLedgerVerifies ==
    Len(evidenceChain) <= 1 =>
        /\ verifyChain(evidenceChain, 1)
        /\ ret.op = "verifyChain" => ret.value

\* C14 witness: verifyChain() returned true on a one-block ledger whose block
\* was overwritten and no longer matches its chainHash
C14_Witness ==
    /\ Len(evidenceChain) = 1
    /\ tamper # {}
    /\ calculatedHash(evidenceChain[1]) # evidenceChain[1].chainHash
    /\ evidenceChain[1].previousHash # Undefined
    /\ ret = Ret("verifyChain", TRUE)

\* C15: every step of an EvidenceCollector operation leaves the ledger as it
\* is, except addToChain, which appends exactly the block it returns
C15_AppendOnly ==
    [][\/ evidenceChain' = evidenceChain
       \/ /\ ret'.op = "addToChain"
          /\ evidenceChain' = Append(evidenceChain, ret'.value)]_vars

\* C15 witness: on a ledger of two blocks the caller has read the chain,
\* validated an Evidence record and asked for its trust score
C15_Witness ==
    /\ Len(evidenceChain) >= 2
    /\ ret.op = "calculateTrustScore"
    /\ \E k \in 1..Len(evidence) : Len(evidence[k].validatedBy) >= 2

\* the positions of the votes cast by validators that are registered and active
CountedVotes(votes, registry) ==
    {i \in 1..Len(votes) :
        /\ votes[i].validatorId \in DOMAIN registry
        /\ registry[votes[i].validatorId].isActive}

\* how many of the counted votes are for verdict v
CountFor(votes, registry, v) ==
    Cardinality({i \in CountedVotes(votes, registry) : votes[i].vote = v})

\* a buildConsensus call has returned a ConsensusResult
Returned == ret.op = "buildConsensus" /\ ret.value.ok

\* C16: buildConsensus called with fewer than 3 votes throws and returns no
\* ConsensusResult, whatever the votes and the registry hold
C16_InsufficientVotes ==
    (ret.op = "buildConsensus" /\ Len(ret.votes) < 3)
        => (~ret.value.ok /\ ret.value.res = Undefined)

\* C16 witness: buildConsensus threw on two votes cast by registered, active
\* validators
C16_Witness ==
    /\ ret.op = "buildConsensus"
    /\ Len(ret.votes) = 2
    /\ CountedVotes(ret.votes, validators) = {1, 2}
    /\ ~ret.value.ok

\* C17: the verdict is synthetic when the synthetic fraction of the counted
\* votes is >= 0.67, else authentic when their authentic fraction is >= 0.67,
\* else disputed; and consensusReached iff the verdict is not disputed
C17_VerdictRule ==
    Returned =>
        LET k == Cardinality(CountedVotes(ret.votes, validators))
            synthetic == CountFor(ret.votes, validators, "synthetic")
            authentic == CountFor(ret.votes, validators, "authentic")
            verdict == IF k > 0 /\ 100 * synthetic >= 67 * k THEN "synthetic"
                       ELSE IF k > 0 /\ 100 * authentic >= 67 * k THEN "authentic"
                       ELSE "disputed"
        IN  /\ ret.value.res.verdict = verdict
            /\ ret.value.res.consensusReached = (verdict # "disputed")

\* the votes of a ballot that are counted, in order
RECURSIVE KeptVotes(_, _, _)
KeptVotes(votes, registry, i) ==
    IF i > Len(votes) THEN <<>>
    ELSE (IF i \in CountedVotes(votes, registry) THEN <<votes[i]>> ELSE <<>>)
         \o KeptVotes(votes, registry, i + 1)

\* C18: votes of unknown or inactive validators are never an error, and when
\* at least 3 votes remain without them buildConsensus returns the verdict,
\* consensusReached, vote counts, weightedScore and confidence it returns
\* for the ballot without them
C18_ExcludedVotesIgnored ==
    (ret.op = "buildConsensus" /\ Len(ret.votes) >= 3) =>
        /\ ret.value.ok
        /\ LET kept == KeptVotes(ret.votes, validators, 1)
               with == ret.value.res
               without == buildConsensus(kept, validators).res
           IN  Len(kept) >= 3 =>
                  /\ with.verdict = without.verdict
                  /\ with.consensusReached = without.consensusReached
                  /\ with.votes = without.votes
                  /\ with.weightedScore = without.weightedScore
                  /\ with.confidence = without.confidence

\* C19: the weightedScore of a returned ConsensusResult is a number in [0,1]
C19_WeightedScoreInRange ==
    Returned =>
        LET weightedScore == ret.value.res.weightedScore
        IN  /\ ~IsNaN(weightedScore)
            /\ Geq(weightedScore, Rat(0, 1))
            /\ Geq(Rat(1, 1), weightedScore)

\* C20: an update adds confidence*5 to the reputation of a correct validator
\* and takes confidence*10 from a wrong one, within [0,100] (80 at confidence
\* 0.8 gives 84 or 72), adds 1 to totalValidations and makes accuracyRate the
\* running mean; reputation stays in [0,100] and accuracyRate in [0,1]
C20_ReputationUpdate ==
    /\ ret.op = "updateValidatorReputation" =>
          LET old == ret.validator
              new == ret.value
              gain == Times(ret.confidence, Rat(5, 1))
              loss == Times(ret.confidence, Rat(10, 1))
              hit == IF ret.wasCorrect THEN 1 ELSE 0
          IN  /\ new.reputation =
                    IF ret.wasCorrect
                    THEN MathMin(Rat(100, 1), Plus(old.reputation, gain))
                    ELSE MathMax(Rat(0, 1), Minus(old.reputation, loss))
              /\ (old.reputation = Rat(80, 1) /\ ret.confidence = Rat(8, 10)) =>
                    new.reputation = Rat(IF ret.wasCorrect THEN 84 ELSE 72, 1)
              /\ new.totalValidations = old.totalValidations + 1
              /\ ~IsNaN(new.accuracyRate)
              /\ new.accuracyRate.num * old.accuracyRate.den
                    * (old.totalValidations + 1)
                 = new.accuracyRate.den
                    * (old.accuracyRate.num * old.totalValidations
                       + hit * old.accuracyRate.den)
    /\ \A id \in DOMAIN validators :
          /\ Geq(validators[id].reputation, Rat(0, 1))
          /\ Geq(Rat(100, 1), validators[id].reputation)
          /\ Geq(validators[id].accuracyRate, Rat(0, 1))
          /\ Geq(Rat(1, 1), validators[id].accuracyRate)

\* C20 witness: a validator updated before, of reputation 80, was wrong with
\* confidence 0.8 and is at 72
C20_Witness ==
    /\ ret.op = "updateValidatorReputation"
    /\ ret.validator.totalValidations >= 1
    /\ ret.validator.reputation = Rat(80, 1)
    /\ ret.confidence = Rat(8, 10)
    /\ ~ret.wasCorrect
    /\ ret.value.reputation = Rat(72, 1)
    /\ ret.value.accuracyRate # ret.validator.accuracyRate

\* a fuseDetectionResults call has been made / has returned a FusionResult
Fusing == ret.op = "fuseDetectionResults"

Fused == Fusing /\ ret.value.ok

\* C21: fuseDetectionResults on an empty list throws the empty-input error
\* and returns no FusionResult, for every method selector, known or not
C21_EmptyInputFails ==
    (Fusing /\ Len(ret.results) = 0) =>
        /\ ~ret.value.ok
        /\ ret.value.error = "Cannot fuse empty detection results"
        /\ ret.value.res = Undefined

\* C21 witness: an empty list under an unknown method selector failed with
\* the empty-input error
C21_Witness ==
    /\ Fusing
    /\ Len(ret.results) = 0
    /\ ret.config.method \notin FusionMethods
    /\ ret.value.error = "Cannot fuse empty detection results"

\* a number of the interval [lo, hi]
Within(x, lo, hi) == ~IsNaN(x) /\ Geq(x, lo) /\ Geq(hi, x)

\* C22: weighted_average returns a finalConfidence in [0,1] for every
\* non-empty input and every weights configuration
C22_WeightedConfidenceInRange ==
    (Fused /\ ret.config.method = "weighted_average") =>
        Within(ret.value.res.finalConfidence, Rat(0, 1), Rat(1, 1))

\* the threshold the caller configured, 0.5 when none is configured
ConfiguredThreshold ==
    IF ret.config.threshold = Undefined THEN Rat(5, 10) ELSE ret.config.threshold

\* the signed weighted sum and total weight of the call's input
SignedSums ==
    weightedSums(ret.results,
                 IF ret.config.weights = Undefined
                 THEN DEFAULT_WEIGHTS ELSE ret.config.weights,
                 1, [totalWeight |-> Rat(0, 1), weightedSum |-> Rat(0, 1)])

\* C23: weighted_average returns finalConfidence = |sum / total weight| and
\* isSynthetic = TRUE iff the signed sum is positive and finalConfidence is
\* at least the configured threshold (0.5 when none is configured)
C23_WeightedVerdict ==
    (Fused /\ ret.config.method = "weighted_average") =>
        LET finalConfidence ==
                MathAbs(Divide(SignedSums.weightedSum, SignedSums.totalWeight))
        IN  /\ ret.value.res.finalConfidence = finalConfidence
            /\ ret.value.res.isSynthetic =
                  (/\ Gt(SignedSums.weightedSum, Rat(0, 1))
                   /\ Geq(finalConfidence, ConfiguredThreshold))

\* the input of the voting example: synthetic 0.9, authentic 0.8,
\* synthetic 0.85
VotingExample ==
    /\ Len(ret.results) = 3
    /\ ret.results[1].isSynthetic /\ ret.results[1].confidence = Rat(9, 10)
    /\ ~ret.results[2].isSynthetic /\ ret.results[2].confidence = Rat(8, 10)
    /\ ret.results[3].isSynthetic /\ ret.results[3].confidence = Rat(85, 100)

\* C24: voting returns the plain average of the confidences, and isSynthetic
\* = TRUE iff strictly more results are flagged synthetic than not and the
\* average is at least the threshold; the example gives TRUE and 0.85
C24_VotingVerdict ==
    (Fused /\ ret.config.method = "voting") =>
        LET n == Len(ret.results)
            synthetic == Cardinality({i \in 1..n : ret.results[i].isSynthetic})
            average == Divide(sumConfidence(ret.results, 1, Rat(0, 1)), Rat(n, 1))
        IN  /\ ret.value.res.finalConfidence = average
            /\ ret.value.res.isSynthetic =
                  (2 * synthetic > n /\ Geq(average, ConfiguredThreshold))
            /\ (VotingExample /\ ret.config.threshold = Rat(5, 10)) =>
                  /\ ret.value.res.isSynthetic
                  /\ ret.value.res.finalConfidence = Rat(85, 100)

\* all results of the call's input carry the same isSynthetic flag
AllAgree ==
    \A i, j \in 1..Len(ret.results) :
        ret.results[i].isSynthetic = ret.results[j].isSynthetic

\* C25: when all results agree, deep_fusion's finalConfidence is the
\* weighted_average confidence of the same input
C25_FullAgreementKeepsConfidence ==
    (Fused /\ ret.config.method = "deep_fusion" /\ AllAgree) =>
        ret.value.res.finalConfidence =
            fused(ret.results,
                  [ret.config EXCEPT !.method = "weighted_average"]).finalConfidence

\* C26: riskScore is 0 for a verdict that is not synthetic and otherwise
\* min(10, finalConfidence*10*(1 + 0.2*(k-1))), k the number of results
\* flagged synthetic; it is in [0,10] and positive only for a synthetic verdict
C26_RiskScore ==
    Fused =>
        LET res == ret.value.res
            k == Cardinality({i \in 1..Len(ret.results) : ret.results[i].isSynthetic})
            amplified == Times(Times(res.finalConfidence, Rat(10, 1)),
                               Rat(10 + 2 * (k - 1), 10))
        IN  /\ res.riskScore =
                  IF ~res.isSynthetic THEN Rat(0, 1)
                  ELSE IF Geq(amplified, Rat(10, 1)) THEN Rat(10, 1) ELSE amplified
            /\ Within(res.riskScore, Rat(0, 1), Rat(10, 1))
            /\ Gt(res.riskScore, Rat(0, 1)) => res.isSynthetic

\* C26 witness: a synthetic verdict of confidence below 1 over two results
\* flagged synthetic has its risk capped at 10
C26_Witness ==
    /\ Fused
    /\ ret.value.res.isSynthetic
    /\ Cardinality({i \in 1..Len(ret.results) : ret.results[i].isSynthetic}) = 2
    /\ Gt(Rat(1, 1), ret.value.res.finalConfidence)
    /\ ret.value.res.riskScore = Rat(10, 1)

\* the tasks with one of the given statuses
WithStatus(statuses) == {t \in TaskIds : tasks[t].status \in statuses}

\* C27: getStatus changes no agent, task or queue state and returns the size
\* of the agent pool, the number of assigned or processing tasks, the number
\* of completed tasks and the number of tasks still waiting to be assigned
C27_StatusSnapshot ==
    [][(ret'.op = "getStatus" /\ ret' # ret) =>
          /\ UNCHANGED swarmVars
          /\ ret'.value.agents = Len(agents)
          /\ ret'.value.activeTasks =
                Cardinality(WithStatus({"assigned", "processing"}))
          /\ ret'.value.completedTasks = Cardinality(WithStatus({"completed"}))
          /\ ret'.value.queuedTasks = Cardinality(WithStatus({"pending"}))]_vars

\* the unfinished tasks bound to agent a
BoundTo(a) ==
    {t \in WithStatus({"assigned", "processing"}) : tasks[t].assignedTo = a}

\* C28: between any two steps of the event loop, an agent is busy iff exactly
\* one assigned or processing task is bound to it, and no two unfinished tasks
\* are bound to the same agent
C28_BusyIffOneTask ==
    \A a \in 1..Len(agents) :
        /\ Cardinality(BoundTo(a)) <= 1
        /\ (agents[a].status = "busy") = (Cardinality(BoundTo(a)) = 1)

\* C28 witness: both agents of a type are busy for two concurrent calls, one
\* of them on its second task
C28_Witness ==
    \E a, b \in 1..Len(agents) :
        /\ a # b
        /\ agents[a].type = agents[b].type
        /\ agents[a].status = "busy" /\ agents[b].status = "busy"
        /\ agents[a].tasksCompleted >= 1
        /\ \E t \in BoundTo(a), u \in BoundTo(b) : tasks[t].by # tasks[u].by

\* an assignment pass is about to resume after finding no idle agent for the
\* task it took from the head of the queue
PassMissedHead ==
    /\ mq # <<>>
    /\ Head(mq).k = "processQueue"
    /\ Head(mq).t # 0

\* C29: an assignment pass that could not assign the task at the head of the
\* queue assigns no task that was behind it: its next step leaves every
\* pending task pending
C29_NoSearchAhead ==
    [][PassMissedHead =>
          \A t \in WithStatus({"pending"}) : tasks'[t].status = "pending"]_vars

\* C30: of two tasks of the same type and priority, the one enqueued later is
\* not assigned while the one enqueued earlier is still pending
C30_FifoWithinBucket ==
    \A t, u \in TaskIds :
        (/\ t < u
         /\ tasks[t].type = tasks[u].type
         /\ tasks[t].priority = tasks[u].priority
         /\ tasks[t].status = "pending")
            => tasks[u].status = "pending"

\* an agent of the given type is idle
IdleAgentOf(type) ==
    \E a \in 1..Len(agents) : agents[a].type = type /\ agents[a].status = "idle"

\* C31: a task enqueued by a createTask call on a swarm with an idle agent of
\* its type leaves the pending state without a further call: once nothing is
\* left to run, no such task is pending
C31_EnqueueTriggersAssignment ==
    Quiescent =>
        \A t \in TaskIds :
            (tasks[t].by = 0 /\ IdleAgentOf(tasks[t].type))
                => tasks[t].status # "pending"

\* the tasks that reach completed or failed in the step
Finishing == {t \in TaskIds : tasks[t].status \notin Terminal
                              /\ tasks'[t].status \in Terminal}

\* an assignment pass started in the step: it took the task at the head of
\* the queue, if any, and assigned it or found no idle agent for it
PassStarted ==
    taskQueue # <<>> =>
        /\ taskQueue' = Tail(taskQueue)
        /\ \/ tasks'[Head(taskQueue)].status = "processing"
           \/ \E i \in 1..Len(mq') :
                 mq'[i].k = "processQueue" /\ mq'[i].t = Head(taskQueue)

\* C32: in the step in which a task reaches completed or failed, its agent
\* is released (idle, or already busy with a task assigned in that step),
\* an assignment pass over the queue is started, and no agent is left busy
\* without an unfinished task
C32_AgentReleased ==
    [][\A t \in Finishing :
          LET a == tasks[t].assignedTo
          IN  /\ \/ agents'[a].status = "idle"
                 \/ \E u \in TaskIds :
                       /\ tasks[u].status = "pending"
                       /\ tasks'[u].status = "processing"
                       /\ tasks'[u].assignedTo = a
              /\ PassStarted
              /\ \A b \in 1..Len(agents) :
                    agents'[b].status = "busy" =>
                       \E u \in TaskIds :
                          /\ tasks'[u].assignedTo = b
                          /\ tasks'[u].status \in {"assigned", "processing"}]_vars

\* C32 witness: the analyzer of a task threw, the task is failed, its agent is
\* idle, and the pass started at that point assigned a queued task
C32_Witness ==
    \E t, u \in TaskIds :
        /\ tasks[t].status = "failed"
        /\ agents[tasks[t].assignedTo].status = "idle"
        /\ tasks[u].status = "processing"
        /\ tasks[u].awaitedBy = 0
        /\ mq # <<>>
        /\ mq[Len(mq)].k = "assignTask" /\ mq[Len(mq)].t = t

\* the agent task t is bound to before the step (0: none, or not yet created)
BoundBefore(t) == IF t \in TaskIds THEN tasks[t].assignedTo ELSE 0

\* C33: a task is bound only to an agent of its type that is idle at that
\* moment (idle before the step, or released in the step by the task it was
\* executing); the agent a task names exists in the pool and has the task's
\* type; and assignedTo never changes once set
C33_BoundToIdleAgentOfType ==
    [][\A t \in 1..Len(tasks') :
          LET a == tasks'[t].assignedTo
          IN  /\ BoundBefore(t) # 0 => a = BoundBefore(t)
              /\ a # 0 =>
                    /\ a \in 1..Len(agents')
                    /\ agents'[a].type = tasks'[t].type
              /\ (BoundBefore(t) = 0 /\ a # 0) =>
                    \/ agents[a].status = "idle"
                    \/ \E u \in Finishing : tasks[u].assignedTo = a]_vars

\* C33 witness: an agent released by a finished task was bound in the same
\* step to the next queued task of its type
C33_Witness ==
    \E t, u \in TaskIds :
        /\ tasks[t].status \in Terminal
        /\ tasks[u].status = "processing"
        /\ tasks[u].assignedTo = tasks[t].assignedTo
        /\ tasks[u].type = agents[tasks[u].assignedTo].type
        /\ mq # <<>>
        /\ mq[Len(mq)].k = "assignTask" /\ mq[Len(mq)].t = t

\* the completed tasks that agent a executed
CompletedBy(a) == {t \in WithStatus({"completed"}) : tasks[t].assignedTo = a}

\* C34: each agent's tasksCompleted is the number of completed tasks bound to
\* it (so it grows by one per completed task and not at all for a failed
\* one), and a task carries a result iff its status is completed
C34_CompletedCount ==
    /\ \A a \in 1..Len(agents) :
          agents[a].tasksCompleted = Cardinality(CompletedBy(a))
    /\ \A t \in TaskIds :
          (tasks[t].result # Undefined) = (tasks[t].status = "completed")

\* C34 witness: an agent has completed one task and failed another
C34_Witness ==
    \E t, u \in TaskIds :
        /\ tasks[t].status = "completed"
        /\ tasks[u].status = "failed"
        /\ tasks[t].assignedTo = tasks[u].assignedTo
        /\ agents[tasks[t].assignedTo].tasksCompleted = 1

\* the callers that have recorded their Evidence
Appended == {c \in 1..Len(dkgCalls) : dkgCalls[c].pc = "appended"}

\* C35: appends made by concurrent callers are atomic: the ledger holds one
\* block per append, numbered 0..N-1 in order, each linked to the block
\* directly before it, and no two blocks share a number or a predecessor
C35_ConcurrentAppendsAtomic ==
    /\ Len(evidenceChain) = Cardinality(Appended)
    /\ \A c \in Appended :
          /\ dkgCalls[c].block \in 1..Len(evidenceChain)
          /\ evidenceChain[dkgCalls[c].block].detectionId = dkgCalls[c].detectionId
    /\ \A i \in 1..Len(evidenceChain) :
          /\ evidenceChain[i].blockNumber = i - 1
          /\ evidenceChain[i].previousHash =
                IF i = 1 THEN Undefined ELSE evidenceChain[i - 1].chainHash
    /\ \A i, j \in 1..Len(evidenceChain) :
          i # j =>
             /\ evidenceChain[i].blockNumber # evidenceChain[j].blockNumber
             /\ evidenceChain[i].previousHash # evidenceChain[j].previousHash

\* C35 witness: three callers overlapped and recorded their Evidence in an
\* order other than the order of their calls
C35_Witness ==
    /\ Cardinality(Appended) = 3
    /\ \E c1, c2 \in Appended :
          /\ c1 < c2
          /\ dkgCalls[c2].block < dkgCalls[c1].block
          /\ dkgCalls[c2].started = 0

\* the pairs of results of the call's input
ResultPairs ==
    {p \in (1..Len(ret.results)) \X (1..Len(ret.results)) : p[1] < p[2]}

\* the sum, over a set of pairs, of the pair's average confidence when both
\* results carry the same flag
RECURSIVE PairAgreementSum(_)
PairAgreementSum(pairs) ==
    IF pairs = {} THEN Rat(0, 1)
    ELSE LET p == CHOOSE q \in pairs : TRUE
             r1 == ret.results[p[1]]
             r2 == ret.results[p[2]]
         IN  Plus(PairAgreementSum(pairs \ {p}),
                  IF r1.isSynthetic = r2.isSynthetic
                  THEN Divide(Plus(r1.confidence, r2.confidence), Rat(2, 1))
                  ELSE Rat(0, 1))

\* the weighted_average result of the call's input, weights and threshold
WeightedBase == fused(ret.results, [ret.config EXCEPT !.method = "weighted_average"])

\* C36: deep_fusion returns finalConfidence = base*(0.7 + 0.3*agreement),
\* base the weighted_average confidence and agreement the pairs' agreement
\* sum over the number of pairs (a single result has no pair and counts as
\* full agreement), and isSynthetic = TRUE iff that confidence is at least the
\* configured threshold and weighted_average reports synthetic; it never
\* reports synthetic where weighted_average reports authentic
C36_DeepFusionRefinesWeighted ==
    (Fused /\ ret.config.method = "deep_fusion") =>
        LET agreement ==
                IF ResultPairs = {} THEN Rat(1, 1)
                ELSE Divide(PairAgreementSum(ResultPairs),
                            Rat(Cardinality(ResultPairs), 1))
            adjusted == Times(WeightedBase.finalConfidence,
                              Plus(Rat(7, 10), Times(Rat(3, 10), agreement)))
        IN  /\ ret.value.res.finalConfidence = adjusted
            /\ ret.value.res.isSynthetic =
                  (Geq(adjusted, ConfiguredThreshold) /\ WeightedBase.isSynthetic)
            /\ ret.value.res.isSynthetic => WeightedBase.isSynthetic

\* the weight of a modality as configured: the caller's weight where the
\* caller gives one, else the default weight, else the fallback 0.25
ConfiguredWeight(modality) ==
    IF ret.config.weights # Undefined /\ modality \in DOMAIN ret.config.weights
    THEN ret.config.weights[modality]
    ELSE IF modality \in DOMAIN DEFAULT_WEIGHTS THEN DEFAULT_WEIGHTS[modality]
    ELSE Rat(25, 100)

\* the signed sum and the total weight of results i.. under those weights
RECURSIVE ConfiguredSums(_)
ConfiguredSums(i) ==
    IF i > Len(ret.results)
    THEN [totalWeight |-> Rat(0, 1), weightedSum |-> Rat(0, 1)]
    ELSE LET rest == ConfiguredSums(i + 1)
             weight == ConfiguredWeight(ret.results[i].modality)
             signed == Times(Times(ret.results[i].confidence, weight),
                             Rat(IF ret.results[i].isSynthetic THEN 1 ELSE -1, 1))
         IN  [totalWeight |-> Plus(rest.totalWeight, weight),
              weightedSum |-> Plus(rest.weightedSum, signed)]

\* C37: weighted_average weights each result by the configured weight of its
\* modality, the default where the caller overrides none, so that a modality
\* configured with weight 0 adds nothing to the signed sum or the total weight
C37_ConfiguredWeightsUsed ==
    (Fused /\ ret.config.method = "weighted_average") =>
        /\ SignedSums = ConfiguredSums(1)
        /\ ret.value.res.finalConfidence =
              MathAbs(Divide(ConfiguredSums(1).weightedSum,
                             ConfiguredSums(1).totalWeight))

\* the registries that hold the validators of the call's registry, active
\* where it has them active, with any reputation, accuracyRate and stake
SameActiveValidators ==
    {registry \in [DOMAIN validators -> Profiles] :
        \A id \in DOMAIN validators :
            registry[id].isActive = validators[id].isActive}

\* C38: the verdict and consensusReached of a ballot are those of the same
\* ballot under every registry with the same active validators, whatever
\* their reputation, accuracyRate and stake
C38_VerdictIgnoresWeights ==
    Returned =>
        \A registry \in SameActiveValidators :
            LET other == buildConsensus(ret.votes, registry).res
            IN  /\ other.verdict = ret.value.res.verdict
                /\ other.consensusReached = ret.value.res.consensusReached

\* C38 witness: a ballot reached the verdict authentic with a weighted score
\* above one half, and a registry with the same active validators gives it a
\* weighted score below one half
C38_Witness ==
    /\ Returned
    /\ ret.value.res.verdict = "authentic"
    /\ Gt(ret.value.res.weightedScore, Rat(1, 2))
    /\ \E registry \in SameActiveValidators :
          Gt(Rat(1, 2), buildConsensus(ret.votes, registry).res.weightedScore)

\* how many results of the call's input are flagged synthetic
SyntheticInputs ==
    Cardinality({i \in 1..Len(ret.results) : ret.results[i].isSynthetic})

\* C39: under every fusion method a fused verdict is synthetic only when at
\* least one input result is flagged synthetic, so that the modality
\* multiplier 1 + 0.2*(k-1) of its risk score is at least 1
C39_SyntheticNeedsSyntheticInput ==
    (Fused /\ ret.value.res.isSynthetic) =>
        /\ SyntheticInputs >= 1
        /\ Geq(Plus(Rat(1, 1), Times(Rat(SyntheticInputs - 1, 1), Rat(2, 10))),
               Rat(1, 1))

====
